---- MODULE Spec2Model ----
(***************************************************************************)
(* Model of the OSINT probe orchestration of recovery-app:                 *)
(*   osint-backend/main.py  (FastAPI service: tool adapters, the combined  *)
(*                           username search, the sweep, the username      *)
(*                           variation generator)                          *)
(*   api/osint.py           (serverless handler: do_POST)                  *)
(*                                                                         *)
(* Python strings that the code takes apart (names, usernames) are         *)
(* sequences of one-character strings; URLs are records of their parts.    *)
(***************************************************************************)
EXTENDS Integers, Sequences, FiniteSets, TLC

VARIABLES
    full_name,          \* generate_username_variations: the argument
    variations,         \* generate_username_variations: the returned list
    called,             \* generate_username_variations: has it returned
    history,            \* generate_username_variations: the lists returned, call by call
    sherlock_found,     \* URL merge: the first finding list (sherlock_result['found'])
    maigret_found,      \* URL merge: the second finding list (maigret_result['found'])
    merged,             \* URL merge: "no" (full_username_search holds both results),
                        \* "full" (it has merged them); "idle", "searching", "multi"
                        \* (multi_username_search: no request, in its loop, answered)
    profiles,           \* URL merge: list(all_found.values())
    multi,              \* multi_username_search: the request, its locals, the 'found'
                        \* lists its searches returned, its response
    pc,                 \* request: "idle", "gathering", "done", "failed" (uncaught exception)
    endpoint,           \* request: "none", "username_full", "sweep", "api"
    request,            \* request: the fields of the request body
    env,                \* request: what each external tool does when it is run
    now,                \* request: seconds since the request arrived
    started,            \* request: per tool, when its call started (NotYet if it has not)
    returned,           \* request: per tool, when its call returned (NotYet if it has not)
    results,            \* request: per tool, the dict its adapter returned (None if none)
    response,           \* request: the body the handler returns (None if none)
    post,               \* request: the JSON body and the query string do_POST received
    inv_pc,             \* investigate_person: where the coroutine stands
    inv_request,        \* investigate_person: the request body
    flow_steps,         \* investigate_person: the step log
    discovered_emails,  \* investigate_person
    discovered_usernames, \* investigate_person
    confirmed_profiles, \* investigate_person
    people_search_links, \* investigate_person
    username_variations, \* investigate_person: the usernames step 3 searches
    all_sherlock_found, \* investigate_person: step 3's dict of profiles by URL
    calls,              \* investigate_person: the adapter calls made, in order
    inv_response,       \* investigate_person: the body returned (None if none)
    inv_again,          \* investigate_person: has a call been made before this one
    inv_other,          \* investigate_person: the locals of the other call under way,
                        \* suspended at its await (NoFrame if there is none)
    work_queue,         \* executor: the work items no worker thread has taken, oldest first
    threads,            \* executor: per adapter, the worker threads running it
    subprocesses,       \* run_socialscan: the socialscan processes running
    spawned,            \* run_socialscan: those of them whose coroutine has started
                        \* them (395-399) and has not reached its wait
    awaited,            \* run_socialscan: those of them a coroutine waits for (401-404)
    loop,               \* the event-loop thread: the handler it is inside of
    temp_images,        \* image hosting: the dict temp_images
    clock,              \* image hosting: datetime.now(), in seconds
    image_reply         \* image hosting: what the last call of a handler answered

(***************************************************************************)
(* Bounds of the model                                                     *)
(***************************************************************************)
MaxNameLen == 5
MaxFound == 3
FastDur == 5            \* a tool run that ends quickly
SlowDur == 20           \* a tool run that ends late
ShortTimeout == 5       \* a request timeout below the default
MaxCalls == 2           \* calls of generate_username_variations with one name
MaxInterleavedCalls == 3 \* adapter calls two interleaved investigate_person calls make in all
MaxQueued == 2          \* work items waiting in the executor's queue
MaxDirect == 1          \* socialscan processes running at once
MaxPerTool == 2         \* work items of one adapter queued or running at once
MaxClock == 1000        \* the clock stops after this second
MaxSearched == 2        \* the largest max_usernames of a multi_username_search
MaxMultiFound == 2      \* findings the searches of a multi_username_search return in all

(***************************************************************************)
(* Constants of the program                                                *)
(***************************************************************************)
DefaultTimeout == 60        \* UsernameSearchRequest.timeout
SherlockSlack == 10         \* run_sherlock: subprocess timeout = timeout + 10
MaigretSlack == 30          \* run_maigret: subprocess timeout = timeout + 30
SweepSherlockTimeout == 60  \* full_osint_sweep: run_sherlock(username, 60)
SweepHoleheTimeout == 60    \* full_osint_sweep: run_holehe(email, 60)
ApiSherlockTimeout == 60    \* api/osint.py run_sherlock: subprocess timeout
ApiMaigretTimeout == 120    \* api/osint.py run_maigret: subprocess timeout
ApiHoleheTimeout == 60      \* api/osint.py run_holehe: subprocess timeout
InvestigateHoleheTimeout == 60   \* investigate_person: run_holehe(request.email, 60)
InvestigateSherlockTimeout == 30 \* investigate_person: run_sherlock(username, 30)
TopVariations == 5          \* investigate_person: generate_username_variations(...)[:5]
MaxWorkers == 10            \* ThreadPoolExecutor(max_workers=10)
ExpirySeconds == 600        \* upload_temp_image: (...).seconds > 600
MaigretNotFoundLimit == 50  \* run_maigret: not_found[:50]
HoleheNotRegisteredLimit == 20 \* run_holehe: not_registered[:20]
MultiErrorsLimit == 20      \* multi_username_search: all_errors[:20]
MultiDefaultMax == 5        \* MultiUsernameRequest.max_usernames
AreaCodeLen == 3            \* phone_search: phone[:3]
NationalLen == 10           \* phone_search: len(phone) >= 10

(***************************************************************************)
(* Python str helpers                                                      *)
(***************************************************************************)
Alphabet == {"a", "B", " ", "\t"}

\* str.lower(), one character
LowerChar(c) == CASE c = "A" -> "a" [] c = "B" -> "b" [] OTHER -> c

\* str.lower()
lower(s) == [i \in 1..Len(s) |-> LowerChar(s[i])]

\* what str.split() with no argument takes as a separator
IsSpace(c) == c \in {" ", "\t", "\n"}

RECURSIVE SplitFrom(_, _, _)
SplitFrom(s, cur, acc) ==
    IF s = <<>>
    THEN IF cur = <<>> THEN acc ELSE Append(acc, cur)
    ELSE IF IsSpace(Head(s))
         THEN SplitFrom(Tail(s), <<>>, IF cur = <<>> THEN acc ELSE Append(acc, cur))
         ELSE SplitFrom(Tail(s), Append(cur, Head(s)), acc)

\* str.split(): the maximal runs of non-whitespace characters
split(s) == SplitFrom(s, <<>>, <<>>)

\* str.replace(" ", "")
replace_space(s) == SelectSeq(s, LAMBDA c : c # " ")

\* the list kept as it is, duplicates included
FromKeysKeepAll(xs, acc) == acc \o xs

\* list(dict.fromkeys(xs)): first occurrences, in order
RECURSIVE FromKeys(_, _)
FromKeys(xs, acc) ==
    IF xs = <<>> THEN acc
    ELSE IF \E i \in 1..Len(acc) : acc[i] = Head(xs)
         THEN FromKeys(Tail(xs), acc)
         ELSE FromKeys(Tail(xs), Append(acc, Head(xs)))

\* all sequences over S of length at most n
SeqUpTo(S, n) == UNION {[1..k -> S] : k \in 0..n}

\* xs[:n]
Take(xs, n) == SubSeq(xs, 1, IF Len(xs) < n THEN Len(xs) ELSE n)

\* xs[n:]
Drop(xs, n) == SubSeq(xs, n + 1, Len(xs))

\* s.startswith(prefix)
startswith(s, prefix) == Len(s) >= Len(prefix) /\ SubSeq(s, 1, Len(prefix)) = prefix

(***************************************************************************)
(* generate_username_variations (main.py 1312-1348)                        *)
(***************************************************************************)
\* the candidate list of lines 1324-1345, before filtering
Candidates(parts) ==
    LET first == parts[1]
        last == parts[Len(parts)]
        middle == IF Len(parts) > 2 THEN parts[2] ELSE <<>>
        first_initial == IF first # <<>> THEN <<first[1]>> ELSE <<>>
        last_initial == IF last # <<>> THEN <<last[1]>> ELSE <<>>
        base == << first \o last,
                   first \o <<"_">> \o last,
                   first \o <<".">> \o last,
                   first \o <<"-">> \o last,
                   last \o first,
                   first_initial \o last,
                   first \o last_initial,
                   first \o <<"_">> \o last_initial,
                   last \o <<"_">> \o first,
                   first \o last \o <<"1">>,
                   first \o last \o <<"1", "2", "3">>,
                   <<"r", "e", "a", "l">> \o first \o last,
                   <<"t", "h", "e">> \o first \o last,
                   first \o <<"o", "f", "f", "i", "c", "i", "a", "l">> >>
    IN  IF middle # <<>>
        THEN base \o << first \o <<middle[1]>> \o last,
                        first \o <<"_">> \o <<middle[1]>> \o <<"_">> \o last >>
        ELSE base

\* line 1316 without lower()
generate_username_variations_cased(name) ==
    LET parts == split(lower(name))
    IN  IF Len(parts) < 2
        THEN <<replace_space(name)>>
        ELSE FromKeys(SelectSeq(Candidates(parts), LAMBDA v : Len(v) > 2), <<>>)

\* lines 1324-1348 with the candidates returned so far kept in a module-level
\* set and left out of what a later call returns
generate_username_variations_seen(name) ==
    LET parts == split(lower(name))
    IN  IF Len(parts) < 2
        THEN <<replace_space(lower(name))>>
        ELSE FromKeys(SelectSeq(Candidates(parts),
                                LAMBDA v : Len(v) > 2 /\ \A i \in 1..Len(history) :
                                               \A k \in 1..Len(history[i]) : history[i][k] # v),
                      <<>>)

\* lines 1312-1348: the function reads nothing but its argument (its lists
\* are locals, made anew at every call), so the result depends on name alone
generate_username_variations(name) ==
    LET parts == split(lower(name))
    IN  IF Len(parts) < 2
        THEN <<replace_space(lower(name))>>
        ELSE FromKeys(SelectSeq(Candidates(parts), LAMBDA v : Len(v) > 2), <<>>)

(***************************************************************************)
(* URLs and findings                                                       *)
(***************************************************************************)
Url(scheme, host, path, slash, query) ==
    [scheme |-> scheme, host |-> host, path |-> path, slash |-> slash, query |-> query]

\* the empty string in the place of a URL (item.get('url', ''))
EmptyUrl == Url("", "", "", FALSE, "")

U1 == Url("https", "x.com", "/a", FALSE, "")
U1Case == Url("HTTPS", "X.com", "/a", FALSE, "")
U1Slash == Url("https", "x.com", "/a", TRUE, "")
U1Query == Url("https", "x.com", "/a", FALSE, "ref=1")
U2 == Url("https", "y.org", "/b", FALSE, "")

Urls == {EmptyUrl, U1, U1Case, U1Slash, U1Query, U2}

\* lower-casing of the scheme and host tokens above
LowerTok(t) == CASE t = "HTTPS" -> "https" [] t = "X.com" -> "x.com" [] OTHER -> t

\* the canonical URL of the data model: scheme and host lower-cased, the
\* trailing slash of the path stripped, the query string dropped
Canon(u) == Url(LowerTok(u.scheme), LowerTok(u.host), u.path, FALSE, "")

Platforms == {"GitHub", "Twitter"}

\* an entry of a tool's 'found' list; tags is info.get('tags', []) as a set,
\* empty for the tools that report none
Finding(platform, url, tags) == [platform |-> platform, url |-> url, tags |-> tags]

SherlockFindings == {Finding(p, u, {}) : p \in Platforms, u \in Urls}
MaigretFindings == {Finding(p, u, t) : p \in Platforms, u \in Urls, t \in {{}, {"t"}}}

(***************************************************************************)
(* A Python dict, in insertion order: a sequence of [key, value]           *)
(***************************************************************************)
Keys(d) == {d[i].key : i \in 1..Len(d)}

Values(d) == [i \in 1..Len(d) |-> d[i].value]

\* d[k] = v: a present key keeps its place and takes the new value
DictSet(d, k, v) ==
    IF k \in Keys(d)
    THEN [i \in 1..Len(d) |-> IF d[i].key = k THEN [key |-> k, value |-> v] ELSE d[i]]
    ELSE Append(d, [key |-> k, value |-> v])

(***************************************************************************)
(* The URL merge of full_username_search (main.py 471-491)                 *)
(***************************************************************************)
\* lines 473-476 with the guard of line 475 left out
RECURSIVE MergeSherlockUnguarded(_, _)
MergeSherlockUnguarded(items, all_found) ==
    IF items = <<>> THEN all_found
    ELSE MergeSherlockUnguarded(Tail(items), DictSet(all_found, Head(items).url, Head(items)))

\* lines 473-476: every sherlock item with a URL is stored under it
RECURSIVE MergeSherlock(_, _)
MergeSherlock(items, all_found) ==
    IF items = <<>> THEN all_found
    ELSE LET item == Head(items)
             url == item.url
         IN  MergeSherlock(Tail(items),
                 IF url # EmptyUrl THEN DictSet(all_found, url, item) ELSE all_found)

\* lines 478-481 with maigret's items deduplicated among themselves only and
\* added after sherlock's
RECURSIVE MergeOwn(_, _)
MergeOwn(items, own) ==
    IF items = <<>> THEN own
    ELSE MergeOwn(Tail(items),
             IF Head(items).url # EmptyUrl /\ Head(items).url \notin Keys(own)
             THEN DictSet(own, Head(items).url, Head(items)) ELSE own)

MergeMaigretApart(items, all_found) == all_found \o MergeOwn(items, <<>>)

\* lines 478-481: a maigret item is stored only under a URL not yet present
RECURSIVE MergeMaigret(_, _)
MergeMaigret(items, all_found) ==
    IF items = <<>> THEN all_found
    ELSE LET item == Head(items)
             url == item.url
         IN  MergeMaigret(Tail(items),
                 IF url # EmptyUrl /\ url \notin Keys(all_found)
                 THEN DictSet(all_found, url, item) ELSE all_found)

\* lines 472-491: the 'combined' part of the response
Combined(sf, mf) ==
    LET all_found == MergeMaigret(mf, MergeSherlock(sf, <<>>))
    IN  [total_unique_profiles |-> Len(all_found), profiles |-> Values(all_found)]

(***************************************************************************)
(* The URL merge of multi_username_search (main.py 1364-1401)              *)
(***************************************************************************)
\* lines 1381-1387: {**item, 'searched_username': username} under a new URL
RECURSIVE MergeSearched(_, _, _)
MergeSearched(items, username, all_found) ==
    IF items = <<>> THEN all_found
    ELSE LET item == Head(items)
             url == item.url
         IN  MergeSearched(Tail(items), username,
                 IF url # EmptyUrl /\ url \notin Keys(all_found)
                 THEN DictSet(all_found, url,
                          [platform |-> item.platform, url |-> item.url,
                           tags |-> item.tags, searched_username |-> username])
                 ELSE all_found)

\* lines 1371-1387 over the searched usernames; founds[i] is the 'found' list
\* of the search of usernames[i]
RECURSIVE MultiMerge(_, _, _)
MultiMerge(usernames, founds, all_found) ==
    IF usernames = <<>> THEN all_found
    ELSE MultiMerge(Tail(usernames), Tail(founds),
             MergeSearched(Head(founds), Head(usernames), all_found))

UrlsOf(items) == {items[i].url : i \in 1..Len(items)}

(***************************************************************************)
(* What an external tool does when it is run                               *)
(*   fate   "missing"  the executable is not there (FileNotFoundError)     *)
(*          "oserror"  the call itself fails with another exception        *)
(*          "hang"     the process never ends                              *)
(*          "exit"     the process ends after dur seconds with status rc   *)
(*   file   the JSON output file: state "absent", "bad" (not JSON),        *)
(*          "nondict" (JSON, but a list), "ok" (a dict of sites)           *)
(*   stdout the lines printed, each [mark, name, url]: "[mark] name: url", *)
(*          "[mark] name" without a URL, the bare name without a mark ("?")*)
(***************************************************************************)
SiteInfo(site, status, exists, url, tags) ==
    [site |-> site, is_dict |-> TRUE, status |-> status, exists |-> exists,
     url |-> url, tags |-> tags]

\* a site whose info is not a dict (a string, a number, a list)
SiteScalar(site) ==
    [site |-> site, is_dict |-> FALSE, status |-> "", exists |-> FALSE,
     url |-> EmptyUrl, tags |-> {}]

JsonFile(state, sites) == [state |-> state, sites |-> sites]

Line(mark, name, url) == [mark |-> mark, name |-> name, url |-> url]

ToolRun(fate, rc, dur, file, stdout) ==
    [fate |-> fate, rc |-> rc, dur |-> dur, file |-> file, stdout |-> stdout]

NoFile == JsonFile("absent", <<>>)

DocOne == <<SiteInfo("GitHub", "Claimed", FALSE, U1, {"t"})>>

DocMixed == << SiteInfo("GitHub", "Claimed", FALSE, U1, {}),
               SiteInfo("Twitter", "Available", FALSE, EmptyUrl, {}),
               SiteInfo("Reddit", "Illegal", FALSE, EmptyUrl, {}),
               SiteInfo("GitLab", "Claimed", FALSE, U2, {}) >>

\* a site with 'exists': true and a status other than Claimed, and a site
\* whose info is not a dict
DocExists == << SiteInfo("GitHub", "Available", TRUE, U1, {}),
                SiteScalar("Reddit"),
                SiteInfo("GitLab", "Claimed", TRUE, U2, {}) >>

\* one site more than run_maigret returns in not_found
DocMany ==
    [i \in 1..(MaigretNotFoundLimit + 1) |->
        SiteInfo("S" \o ToString(i), "Available", FALSE, EmptyUrl, {})]

JsonFiles == {NoFile, JsonFile("bad", <<>>), JsonFile("nondict", <<>>),
              JsonFile("ok", DocOne), JsonFile("ok", DocMixed),
              JsonFile("ok", DocExists)}

MaigretFiles == JsonFiles \cup {JsonFile("ok", DocMany)}

Stdouts == { <<>>,
             <<Line("+", "GitHub", U1)>>,
             <<Line("+", "Twitter", U2), Line("-", "Reddit", EmptyUrl),
               Line("x", "GitLab", EmptyUrl), Line("?", "banner", EmptyUrl),
               Line("+", "", EmptyUrl)>> }

\* one '[-]' line more than run_holehe returns in not_registered
ManyNotRegistered ==
    [i \in 1..(HoleheNotRegisteredLimit + 1) |->
        Line("-", "R" \o ToString(i), EmptyUrl)]

HoleheStdouts == Stdouts \cup {ManyNotRegistered}

Durations == {FastDur, SlowDur}

\* a tool that is not run
NoRun == ToolRun("none", 0, 0, NoFile, <<>>)

\* the runs of a tool that reads the files in Files and the outputs in Outs
Runs(Files, Outs) ==
    {ToolRun(f, 0, 0, NoFile, <<>>) : f \in {"missing", "oserror", "hang"}}
    \cup {ToolRun("exit", rc, d, file, out) :
              rc \in {0, 1}, d \in Durations, file \in Files, out \in Outs}

\* subprocess.run(..., timeout=kill) raises TimeoutExpired
TimedOut(e, kill) == e.fate = "hang" \/ (e.fate = "exit" /\ e.dur >= kill)

\* the seconds a call of the adapter takes
Elapsed(e, kill) ==
    IF e.fate \in {"missing", "oserror"} THEN 0
    ELSE IF TimedOut(e, kill) THEN kill
    ELSE e.dur

(***************************************************************************)
(* What an adapter returns: the dict's tool, found list, not_found list    *)
(* and errors; has_found tells whether the dict has the list of findings   *)
(* at all (api/osint.py leaves "results" out on a timeout).  Raised is an  *)
(* exception leaving the adapter.                                          *)
(***************************************************************************)
Outcome(tool, found, not_found, errors) ==
    [tool |-> tool, found |-> found, not_found |-> not_found, errors |-> errors,
     has_found |-> TRUE]

None == [tool |-> "None"]

\* Python's None where a string may stand
NoneStr == <<"None">>

Raised == [tool |-> "raised"]

\* an entry of an errors list: a message and what is formatted into it
Err(msg, args) == [msg |-> msg, args |-> args]

ErrTimedOut == Err("Search timed out", <<>>)

\* f"Error: {str(e)}"
ErrException(what) == Err("Error: ", <<what>>)

(***************************************************************************)
(* run_sherlock (main.py 123-201)                                          *)
(***************************************************************************)
\* the place of the first site whose info is not a dict (0 if there is none):
\* info.get raises AttributeError there
FirstScalar(sites) ==
    IF \E i \in 1..Len(sites) : ~sites[i].is_dict
    THEN CHOOSE i \in 1..Len(sites) :
             ~sites[i].is_dict /\ \A j \in 1..(i - 1) : sites[j].is_dict
    ELSE 0

\* lines 155-165: the sites of the JSON file
RECURSIVE SherlockSites(_, _)
SherlockSites(sites, out) ==
    IF sites = <<>> THEN out
    ELSE LET info == Head(sites)
         IN  SherlockSites(Tail(sites),
                 CASE info.status = "Claimed" ->
                          [out EXCEPT !.found = Append(@, Finding(info.site, info.url, {}))]
                   [] info.status = "Available" ->
                          [out EXCEPT !.not_found = Append(@, info.site)]
                   [] OTHER ->
                          [out EXCEPT !.errors = Append(@, Err("status", <<info.site, info.status>>))])

\* 'http' in line / part.startswith('http')
HasHttp(u) == u.scheme \in {"http", "https"}

\* lines 168-181: the '[+]' lines of stdout whose URL is not yet in found
RECURSIVE SherlockStdout(_, _)
SherlockStdout(lines, found) ==
    IF lines = <<>> THEN found
    ELSE LET l == Head(lines)
         IN  SherlockStdout(Tail(lines),
                 IF l.mark = "+" /\ HasHttp(l.url) /\ l.url \notin UrlsOf(found)
                 THEN Append(found, Finding("Unknown", l.url, {}))
                 ELSE found)

\* run_sherlock without the FileNotFoundError clause of lines 185-186
run_sherlock_one_clause(e, timeout) ==
    LET empty == Outcome("sherlock", <<>>, <<>>, <<>>)
    IN  CASE e.fate = "missing" -> [empty EXCEPT !.errors = <<ErrException("FileNotFoundError")>>]
          [] TimedOut(e, timeout + SherlockSlack) -> [empty EXCEPT !.errors = <<ErrTimedOut>>]
          [] e.fate = "oserror" -> [empty EXCEPT !.errors = <<ErrException("OSError")>>]
          [] e.file.state = "bad" -> [empty EXCEPT !.errors = <<ErrException("JSONDecodeError")>>]
          [] e.file.state = "nondict" -> [empty EXCEPT !.errors = <<ErrException("AttributeError")>>]
          [] OTHER ->
               LET sites == IF e.file.state = "ok" THEN e.file.sites ELSE <<>>
                   k == FirstScalar(sites)
               IN  IF k > 0
                   THEN [SherlockSites(Take(sites, k - 1), empty) EXCEPT
                            !.errors = Append(@, ErrException("AttributeError"))]
                   ELSE [SherlockSites(sites, empty) EXCEPT
                            !.found = SherlockStdout(e.stdout, @)]

run_sherlock(e, timeout) ==
    LET empty == Outcome("sherlock", <<>>, <<>>, <<>>)
    IN  CASE e.fate = "missing" ->
               [empty EXCEPT !.errors =
                   <<Err("Sherlock not installed. Run: pip install sherlock-project", <<>>)>>]
          [] TimedOut(e, timeout + SherlockSlack) -> [empty EXCEPT !.errors = <<ErrTimedOut>>]
          [] e.fate = "oserror" -> [empty EXCEPT !.errors = <<ErrException("OSError")>>]
          [] e.file.state = "bad" -> [empty EXCEPT !.errors = <<ErrException("JSONDecodeError")>>]
          [] e.file.state = "nondict" -> [empty EXCEPT !.errors = <<ErrException("AttributeError")>>]
          [] OTHER ->
               LET sites == IF e.file.state = "ok" THEN e.file.sites ELSE <<>>
                   k == FirstScalar(sites)
               IN  IF k > 0
                   THEN [SherlockSites(Take(sites, k - 1), empty) EXCEPT
                            !.errors = Append(@, ErrException("AttributeError"))]
                   ELSE [SherlockSites(sites, empty) EXCEPT
                            !.found = SherlockStdout(e.stdout, @)]

(***************************************************************************)
(* run_maigret (main.py 221-283)                                           *)
(***************************************************************************)
\* lines 253-263: the sites of the JSON file; a site whose info is not a dict
\* is passed over
RECURSIVE MaigretSites(_, _)
MaigretSites(sites, out) ==
    IF sites = <<>> THEN out
    ELSE LET info == Head(sites)
         IN  MaigretSites(Tail(sites),
                 CASE ~info.is_dict -> out
                   [] info.status = "Claimed" \/ info.exists ->
                          [out EXCEPT !.found = Append(@, Finding(info.site, info.url, info.tags))]
                   [] OTHER -> [out EXCEPT !.not_found = Append(@, info.site)])

\* line 280: not_found[:50]
MaigretReturn(out) == [out EXCEPT !.not_found = Take(@, MaigretNotFoundLimit)]

run_maigret(e, timeout) ==
    LET empty == Outcome("maigret", <<>>, <<>>, <<>>)
    IN  CASE e.fate = "missing" ->
               [empty EXCEPT !.errors = <<Err("Maigret not installed. Run: pip install maigret", <<>>)>>]
          [] TimedOut(e, timeout + MaigretSlack) -> [empty EXCEPT !.errors = <<ErrTimedOut>>]
          [] e.fate = "oserror" -> [empty EXCEPT !.errors = <<ErrException("OSError")>>]
          [] e.file.state = "bad" -> [empty EXCEPT !.errors = <<ErrException("JSONDecodeError")>>]
          [] e.file.state = "ok" -> MaigretReturn(MaigretSites(e.file.sites, empty))
          [] OTHER -> empty

(***************************************************************************)
(* run_holehe (main.py 303-366)                                            *)
(***************************************************************************)
\* lines 322-347: the marked lines of stdout; found is registered_on,
\* not_found is not_registered
RECURSIVE HoleheLines(_, _)
HoleheLines(lines, out) ==
    IF lines = <<>> THEN out
    ELSE LET l == Head(lines)
         IN  HoleheLines(Tail(lines),
                 CASE l.mark = "+" ->
                          [out EXCEPT !.found =
                              Append(@, [service |-> l.name, status |-> "registered",
                                         details |-> l.url])]
                   [] l.mark = "-" -> [out EXCEPT !.not_found = Append(@, l.name)]
                   [] l.mark = "x" -> [out EXCEPT !.errors = Append(@, Err(l.name, <<>>))]
                   [] OTHER -> out)

\* line 363: not_registered[:20]
HoleheReturn(out) == [out EXCEPT !.not_found = Take(@, HoleheNotRegisteredLimit)]

\* run_holehe without the clause of lines 353-354
run_holehe_uncaught(e, timeout) ==
    LET empty == Outcome("holehe", <<>>, <<>>, <<>>)
    IN  CASE e.fate = "missing" ->
               [empty EXCEPT !.errors = <<Err("holehe not installed. Run: pip install holehe", <<>>)>>]
          [] TimedOut(e, timeout) -> [empty EXCEPT !.errors = <<ErrTimedOut>>]
          [] e.fate = "oserror" -> Raised
          [] OTHER -> HoleheReturn(HoleheLines(e.stdout, empty))

run_holehe(e, timeout) ==
    LET empty == Outcome("holehe", <<>>, <<>>, <<>>)
    IN  CASE e.fate = "missing" ->
               [empty EXCEPT !.errors = <<Err("holehe not installed. Run: pip install holehe", <<>>)>>]
          [] TimedOut(e, timeout) -> [empty EXCEPT !.errors = <<ErrTimedOut>>]
          [] e.fate = "oserror" -> [empty EXCEPT !.errors = <<ErrException("OSError")>>]
          [] OTHER -> HoleheReturn(HoleheLines(e.stdout, empty))

(***************************************************************************)
(* phone_search (main.py 499-551): no external call, no failure            *)
(***************************************************************************)
\* lines 505-519: the area codes known, each with its city and state
AreaCodes ==
    << [code |-> <<"2", "1", "2">>, city |-> "New York", state |-> "NY"],
       [code |-> <<"2", "1", "3">>, city |-> "Los Angeles", state |-> "CA"],
       [code |-> <<"3", "1", "2">>, city |-> "Chicago", state |-> "IL"],
       [code |-> <<"4", "0", "4">>, city |-> "Atlanta", state |-> "GA"],
       [code |-> <<"5", "0", "4">>, city |-> "New Orleans", state |-> "LA"],
       [code |-> <<"7", "1", "3">>, city |-> "Houston", state |-> "TX"],
       [code |-> <<"3", "0", "5">>, city |-> "Miami", state |-> "FL"],
       [code |-> <<"7", "0", "2">>, city |-> "Las Vegas", state |-> "NV"],
       [code |-> <<"2", "0", "6">>, city |-> "Seattle", state |-> "WA"],
       [code |-> <<"4", "1", "5">>, city |-> "San Francisco", state |-> "CA"] >>

\* area_codes.get(area_code, {"city": "Unknown", "state": "Unknown"})
AreaCodeLocation(area_code) ==
    IF \E i \in 1..Len(AreaCodes) : AreaCodes[i].code = area_code
    THEN LET i == CHOOSE i \in 1..Len(AreaCodes) : AreaCodes[i].code = area_code
         IN  [city |-> AreaCodes[i].city, state |-> AreaCodes[i].state]
    ELSE [city |-> "Unknown", state |-> "Unknown"]

\* lines 503, 524-527: the number without '-', ' ', '(' and ')', without a
\* leading '+1', and without the leading '1' of eleven characters
NormalPhone(phone) ==
    LET bare == SelectSeq(phone, LAMBDA c : c \notin {"-", " ", "(", ")"})
        national == IF startswith(bare, <<"+", "1">>) THEN Drop(bare, 2) ELSE bare
    IN  IF startswith(national, <<"1">>) /\ Len(national) = NationalLen + 1
        THEN Drop(national, 1) ELSE national

\* lines 533-538: a search link, the prefix of its URL and the number
PhoneLink(platform, prefix, phone) == [platform |-> platform, prefix |-> prefix, phone |-> phone]

\* the dict returned (lines 542-551); None for carrier, line_type, reputation
phone_search(phone) ==
    LET number == NormalPhone(phone)
    IN  [phone |-> phone,
         carrier |-> NoneStr,
         line_type |-> NoneStr,
         location |-> IF Len(number) >= NationalLen
                      THEN AreaCodeLocation(Take(number, AreaCodeLen)) ELSE None,
         reputation |-> NoneStr,
         social_media |->
             << PhoneLink("Facebook", "https://www.facebook.com/search/top?q=", number),
                PhoneLink("TrueCaller", "https://www.truecaller.com/search/us/", number),
                PhoneLink("Whitepages", "https://www.whitepages.com/phone/", number),
                PhoneLink("NumLookup", "https://www.numlookup.com/us/", number) >>]

(***************************************************************************)
(* The adapters of api/osint.py; an "error" key is a one-entry errors list *)
(***************************************************************************)
\* run_sherlock, lines 25-34: the '[+]' lines in which the URL pattern matches
RECURSIVE ApiSherlockLines(_, _)
ApiSherlockLines(lines, found_sites) ==
    IF lines = <<>> THEN found_sites
    ELSE LET l == Head(lines)
         IN  ApiSherlockLines(Tail(lines),
                 IF l.mark = "+" /\ HasHttp(l.url)
                 THEN Append(found_sites, Finding(l.name, l.url, {}))
                 ELSE found_sites)

\* run_sherlock (api/osint.py 13-47)
api_run_sherlock(e) ==
    LET empty == Outcome("sherlock", <<>>, <<>>, <<>>)
    IN  CASE e.fate = "missing" -> [empty EXCEPT !.errors = <<Err("Sherlock not installed", <<>>)>>]
          [] TimedOut(e, ApiSherlockTimeout) ->
               [empty EXCEPT !.errors = <<ErrTimedOut>>, !.has_found = FALSE]
          [] e.fate = "oserror" -> [empty EXCEPT !.errors = <<Err("str(e)", <<"OSError">>)>>]
          [] OTHER -> [empty EXCEPT !.found = ApiSherlockLines(e.stdout, <<>>)]

\* run_maigret, lines 60-68: the lines with '[+]' or 'http' in which the URL
\* pattern matches
RECURSIVE ApiMaigretLines(_, _)
ApiMaigretLines(lines, found_sites) ==
    IF lines = <<>> THEN found_sites
    ELSE LET l == Head(lines)
         IN  ApiMaigretLines(Tail(lines),
                 IF (l.mark = "+" \/ HasHttp(l.url)) /\ HasHttp(l.url)
                 THEN Append(found_sites, Finding("Various", l.url, {}))
                 ELSE found_sites)

\* run_maigret (api/osint.py 49-81)
api_run_maigret(e) ==
    LET empty == Outcome("maigret", <<>>, <<>>, <<>>)
    IN  CASE e.fate = "missing" -> [empty EXCEPT !.errors = <<Err("Maigret not installed", <<>>)>>]
          [] TimedOut(e, ApiMaigretTimeout) ->
               [empty EXCEPT !.errors = <<Err("Deep search timed out", <<>>)>>, !.has_found = FALSE]
          [] e.fate = "oserror" -> [empty EXCEPT !.errors = <<Err("str(e)", <<"OSError">>)>>]
          [] OTHER -> [empty EXCEPT !.found = ApiMaigretLines(e.stdout, <<>>)]

\* run_holehe, lines 94-100: the '[+]' lines; split()[0] of a line with
\* nothing after the mark raises IndexError
RECURSIVE ApiHoleheLines(_, _)
ApiHoleheLines(lines, out) ==
    IF lines = <<>> THEN out
    ELSE LET l == Head(lines)
         IN  IF l.mark = "+" /\ l.name = "" /\ l.url = EmptyUrl
             THEN [raised |-> TRUE, services |-> <<>>]
             ELSE ApiHoleheLines(Tail(lines),
                      IF l.mark = "+"
                      THEN [out EXCEPT !.services =
                               Append(@, [service |-> IF l.url # EmptyUrl
                                                      THEN l.name \o ":" ELSE l.name,
                                          email_registered |-> TRUE])]
                      ELSE out)

\* run_holehe (api/osint.py 83-113)
api_run_holehe(e) ==
    LET empty == Outcome("holehe", <<>>, <<>>, <<>>)
        parsed == ApiHoleheLines(e.stdout, [raised |-> FALSE, services |-> <<>>])
    IN  CASE e.fate = "missing" -> [empty EXCEPT !.errors = <<Err("holehe not installed", <<>>)>>]
          [] TimedOut(e, ApiHoleheTimeout) ->
               [empty EXCEPT !.errors = <<Err("Email search timed out", <<>>)>>, !.has_found = FALSE]
          [] e.fate = "oserror" -> [empty EXCEPT !.errors = <<Err("str(e)", <<"OSError">>)>>]
          [] parsed.raised -> [empty EXCEPT !.errors = <<Err("str(e)", <<"IndexError">>)>>]
          [] OTHER -> [empty EXCEPT !.found = parsed.services]

(***************************************************************************)
(* Requests                                                                *)
(***************************************************************************)
Tools == {"sherlock", "maigret", "holehe", "phone"}

\* the truth value of an Optional[str]
Truthy(v) == v # NoneStr /\ v # <<>>

NotYet == 0 - 1

SomeName == <<"B", " ", "a">>
SomeUsername == <<"b", "a">>
SomeEmail == <<"b", "@", "x">>
SomePhone == <<"5", "0", "4">>
LongPhone == <<"+", "1", "(", "5", "0", "4", ")", "5", "5", "5", "-", "0", "1", "0", "0">>

Timeouts == {ShortTimeout, DefaultTimeout}

Request(action, name, username, email, phone, timeout) ==
    [action |-> action, name |-> name, username |-> username, email |-> email,
     phone |-> phone, timeout |-> timeout]

NoRequest == Request("", NoneStr, NoneStr, NoneStr, NoneStr, 0)

\* full_osint_sweep, lines 1417-1419: the username searched
SweepUsername(req) ==
    IF ~Truthy(req.username) /\ req.name # <<>>
    THEN replace_space(lower(req.name))
    ELSE req.username

\* the adapters a request selects
\*   full_username_search (459-465): both username tools, always
\*   full_osint_sweep (1431, 1440, 1449): by username, email, phone
\*   do_POST (157-169): by action, username, email
Selected(ep, req) ==
    CASE ep = "username_full" -> {"sherlock", "maigret"}
      [] ep = "sweep" ->
           {t \in {"sherlock"} : Truthy(SweepUsername(req))}
           \cup {t \in {"holehe"} : Truthy(req.email)}
           \cup {t \in {"phone"} : Truthy(req.phone)}
      [] ep = "api" ->
           CASE req.action = "sherlock" /\ Truthy(req.username) -> {"sherlock"}
             [] req.action = "maigret" /\ Truthy(req.username) -> {"maigret"}
             [] req.action = "holehe" /\ Truthy(req.email) -> {"holehe"}
             [] req.action = "sweep" ->
                  {t \in {"sherlock", "maigret"} : Truthy(req.username)}
                  \cup {t \in {"holehe"} : Truthy(req.email)}
             [] OTHER -> {}
      [] OTHER -> {}

\* the timeout a tool of main.py is called with
CallTimeout(ep, req, t) ==
    CASE ep = "username_full" -> req.timeout
      [] t = "sherlock" -> SweepSherlockTimeout
      [] OTHER -> SweepHoleheTimeout

\* the timeout the subprocess of a tool is run with
Kill(ep, req, t) ==
    CASE ep = "api" /\ t = "sherlock" -> ApiSherlockTimeout
      [] ep = "api" /\ t = "maigret" -> ApiMaigretTimeout
      [] ep = "api" /\ t = "holehe" -> ApiHoleheTimeout
      [] t = "sherlock" -> CallTimeout(ep, req, t) + SherlockSlack
      [] t = "maigret" -> CallTimeout(ep, req, t) + MaigretSlack
      [] OTHER -> CallTimeout(ep, req, t)

\* the seconds the call of tool t takes
Took(ep, req, t, e) == IF t = "phone" THEN 0 ELSE Elapsed(e, Kill(ep, req, t))

\* what the call of tool t returns
Call(ep, req, t, e) ==
    CASE t = "phone" -> phone_search(req.phone)
      [] ep = "api" /\ t = "sherlock" -> api_run_sherlock(e)
      [] ep = "api" /\ t = "maigret" -> api_run_maigret(e)
      [] ep = "api" /\ t = "holehe" -> api_run_holehe(e)
      [] t = "sherlock" -> run_sherlock(e, CallTimeout(ep, req, t))
      [] t = "maigret" -> run_maigret(e, CallTimeout(ep, req, t))
      [] OTHER -> run_holehe(e, CallTimeout(ep, req, t))

\* the runs each tool can make, by what the adapter reads of them
RunsOf(ep, t) ==
    CASE t = "phone" -> {NoRun}
      [] ep = "api" -> Runs({NoFile}, Stdouts)
      [] t = "sherlock" -> Runs(JsonFiles, Stdouts)
      [] t = "maigret" -> Runs(MaigretFiles, {<<>>})
      [] OTHER -> Runs({NoFile}, HoleheStdouts)

\* the runs tool t can make in a request that selects the tools sel
EnvOf(ep, sel, t) == IF t \in sel THEN RunsOf(ep, t) ELSE {NoRun}

(***************************************************************************)
(* What do_POST receives: the keys action, username and email of the JSON  *)
(* body and of the query string.  A key the dict lacks is "absent" (the    *)
(* action) or Absent; JSON's null is "None" or NoneStr.  A body that is    *)
(* empty or not JSON is the dict without keys (lines 138-141); a body that *)
(* is JSON but no object (a list, null, a string, a number) is NotADict;   *)
(* parse_qs leaves out the keys without a value.                           *)
(***************************************************************************)
Absent == <<"absent">>

PostDict(action, username, email) ==
    [is_dict |-> TRUE, action |-> action, username |-> username, email |-> email]

\* json.loads(body) is no dict
NotADict == [is_dict |-> FALSE, action |-> "absent", username |-> Absent, email |-> Absent]

NoPost == [body |-> PostDict("absent", Absent, Absent), query |-> PostDict("absent", Absent, Absent)]

QueryUsername == <<"q">>

Bodies ==
    {PostDict(a, u, e) :
        a \in {"absent", "None", "sherlock", "maigret", "holehe", "sweep", "other"},
        u \in {Absent, NoneStr, <<>>, SomeUsername},
        e \in {Absent, NoneStr, <<>>, SomeEmail}}
    \cup {NotADict}

\* no query string, ?action=sherlock&username=q, ?action=sweep&email=b@x,
\* ?action=other
Queries ==
    { PostDict("absent", Absent, Absent),
      PostDict("sherlock", QueryUsername, Absent),
      PostDict("sweep", Absent, SomeEmail),
      PostDict("other", Absent, Absent) }

\* lines 143-149: a key of the query string is added if the body lacks it
PostData(body, query) ==
    PostDict(IF body.action = "absent" THEN query.action ELSE body.action,
             IF body.username = Absent THEN query.username ELSE body.username,
             IF body.email = Absent THEN query.email ELSE body.email)

\* lines 151-153: data.get('action', 'sweep'), data.get('username'), data.get('email')
PostRequest(data) ==
    Request(IF data.action = "absent" THEN "sweep" ELSE data.action,
            NoneStr,
            IF data.username = Absent THEN NoneStr ELSE data.username,
            IF data.email = Absent THEN NoneStr ELSE data.email,
            NoneStr, 0)

(***************************************************************************)
(* The state and its idle values                                           *)
(***************************************************************************)
\* the body of a MultiUsernameRequest (main.py 1305-1309); usernames is <<>>
\* for None and for the empty list
MultiRequest(name, usernames, max_usernames) ==
    [name |-> name, usernames |-> usernames, max_usernames |-> max_usernames]

\* multi_username_search not called: its locals of lines 1356-1366, the
\* 'found' list of every search that returned, the response
MultiState(req, usernames, searched_usernames, all_found, all_errors, founds, resp) ==
    [request |-> req, usernames |-> usernames, searched_usernames |-> searched_usernames,
     all_found |-> all_found, all_errors |-> all_errors, founds |-> founds,
     response |-> resp]

NoMulti == MultiState(MultiRequest(<<>>, <<>>, MultiDefaultMax), <<>>, <<>>, <<>>, <<>>, <<>>, None)

\* the adapters handed to the executor: run_sherlock, run_maigret, run_holehe,
\* run_phoneinfoga, run_h8mail, run_theharvester, run_social_analyzer
PoolTools ==
    {"sherlock", "maigret", "holehe", "phoneinfoga", "h8mail", "theharvester",
     "social_analyzer"}

\* health_check, lines 1679 and 1696: the tools it runs, in this order
HealthTools ==
    <<"sherlock", "maigret", "holehe", "socialscan", "h8mail", "theHarvester",
      "social-analyzer", "phoneinfoga">>

\* where the event-loop thread is: inside no handler, or inside a handler
\* that does not give the loop back (the tool-th tool of HealthTools running)
LoopAt(handler, tool) == [handler |-> handler, tool |-> tool]

LoopIdle == LoopAt("none", 0)

varsNames == <<full_name, variations, called, history>>

varsMerge == <<sherlock_found, maigret_found, merged, profiles, multi>>

varsRound == <<pc, endpoint, request, env, now, started, returned, results, response, post>>

varsInvestigate ==
    <<inv_pc, inv_request, flow_steps, discovered_emails, discovered_usernames,
      confirmed_profiles, people_search_links, username_variations,
      all_sherlock_found, calls, inv_response, inv_again, inv_other>>

varsPool == <<work_queue, threads, subprocesses, spawned, awaited, loop>>

varsImages == <<temp_images, clock, image_reply>>

vars == <<varsNames, varsMerge, varsRound, varsInvestigate, varsPool, varsImages>>

\* the generator not called
NoNames == full_name = <<>> /\ variations = <<>> /\ called = FALSE /\ history = <<>>

\* no request arrived
Idle ==
    /\ pc = "idle"
    /\ endpoint = "none"
    /\ request = NoRequest
    /\ env = [t \in Tools |-> NoRun]
    /\ now = 0
    /\ started = [t \in Tools |-> NotYet]
    /\ returned = [t \in Tools |-> NotYet]
    /\ results = [t \in Tools |-> None]
    /\ response = None
    /\ post = NoPost

\* no merge under way
NoMerge ==
    /\ sherlock_found = <<>>
    /\ maigret_found = <<>>
    /\ merged = "idle"
    /\ profiles = <<>>
    /\ multi = NoMulti

\* the body of an InvestigatePersonRequest (main.py 1502-1506)
InvRequest(name, email, location) == [name |-> name, email |-> email, location |-> location]

\* no other call of investigate_person under way
NoFrame == [inv_pc |-> "none"]

\* no investigation asked for
NoInvestigation ==
    /\ inv_pc = "idle"
    /\ inv_request = InvRequest(<<>>, NoneStr, NoneStr)
    /\ flow_steps = <<>>
    /\ discovered_emails = <<>>
    /\ discovered_usernames = <<>>
    /\ confirmed_profiles = <<>>
    /\ people_search_links = <<>>
    /\ username_variations = <<>>
    /\ all_sherlock_found = <<>>
    /\ calls = <<>>
    /\ inv_response = None
    /\ inv_again = FALSE
    /\ inv_other = NoFrame

\* the executor idle, no socialscan process
NoPool ==
    /\ work_queue = <<>>
    /\ threads = [t \in PoolTools |-> 0]
    /\ subprocesses = 0
    /\ spawned = 0
    /\ awaited = 0
    /\ loop = LoopIdle

\* no image uploaded
NoImages == temp_images = <<>> /\ clock = 0 /\ image_reply = None

(***************************************************************************)
(* The handlers of main.py                                                 *)
(***************************************************************************)
\* what each tool of sel does when it is run
ChooseEnv(ep, sel) ==
    \E es \in EnvOf(ep, sel, "sherlock"), em \in EnvOf(ep, sel, "maigret"),
       eh \in EnvOf(ep, sel, "holehe") :
        env' = [t \in Tools |->
                   CASE t = "sherlock" -> es [] t = "maigret" -> em
                     [] t = "holehe" -> eh [] OTHER -> NoRun]

\* full_username_search, lines 455-467: the handler hands both tools to the
\* executor (460-465) and waits in gather
FullUsernameSearch ==
    \E username \in {<<>>, SomeUsername}, timeout \in Timeouts :
        LET req == Request("", NoneStr, username, NoneStr, NoneStr, timeout)
            sel == Selected("username_full", req)
        IN  /\ pc = "idle"
            /\ ChooseEnv("username_full", sel)
            /\ pc' = "gathering"
            /\ endpoint' = "username_full"
            /\ request' = req
            /\ started' = [t \in Tools |-> IF t \in sel THEN now ELSE NotYet]
            /\ UNCHANGED <<now, returned, results, response, post, varsNames, varsMerge, varsInvestigate, varsPool, varsImages>>

\* full_osint_sweep, lines 1466-1476: the parts of the summary, one for each
\* result there is (the phone's only with a location), joined by ' | ' in 1492
SummaryParts(req, res) ==
    (IF res["sherlock"] # None
     THEN << [part |-> "Found {found} social profiles for @{username}",
              found |-> Len(res["sherlock"].found), username |-> SweepUsername(req)] >>
     ELSE <<>>)
    \o (IF res["holehe"] # None
        THEN << [part |-> "Email registered on {registered} services",
                 registered |-> Len(res["holehe"].found)] >>
        ELSE <<>>)
    \o (IF res["phone"] # None /\ res["phone"].location # None
        THEN << [part |-> "Phone from {city}, {state}",
                 city |-> res["phone"].location.city,
                 state |-> res["phone"].location.state] >>
        ELSE <<>>)

\* full_osint_sweep, lines 1459-1495: the response
SweepResponse(req, res) ==
    [target |-> [name |-> req.name, email |-> req.email, phone |-> req.phone,
                 username |-> SweepUsername(req)],
     username_results |-> res["sherlock"],
     email_results |-> res["holehe"],
     phone_results |-> res["phone"],
     summary |-> IF SummaryParts(req, res) = <<>>
                 THEN << [part |-> "No results found"] >>
                 ELSE SummaryParts(req, res),
     total_profiles_found |->
         (IF res["sherlock"] # None THEN Len(res["sherlock"].found) ELSE 0)
         + (IF res["holehe"] # None THEN Len(res["holehe"].found) ELSE 0)]

\* full_osint_sweep, lines 1412-1457: the handler makes a coroutine for each
\* selected search and waits in gather, which makes a task of each; no task
\* has run yet.  Without a task (1456) it goes on to the response at once.
FullOsintSweep ==
    \E name \in {<<>>, SomeName}, username \in {NoneStr, <<>>, SomeUsername},
       email \in {NoneStr, <<>>, SomeEmail}, phone \in {NoneStr, SomePhone, LongPhone} :
        LET req == Request("", name, username, email, phone, 0)
            sel == Selected("sweep", req)
        IN  /\ pc = "idle"
            /\ ChooseEnv("sweep", sel)
            /\ endpoint' = "sweep"
            /\ request' = req
            /\ IF sel = {}
               THEN /\ pc' = "done"
                    /\ response' = SweepResponse(req, results)
               ELSE /\ pc' = "scheduled"
                    /\ UNCHANGED response
            /\ UNCHANGED <<now, started, returned, results, post, varsNames, varsMerge, varsInvestigate, varsPool, varsImages>>

\* the place of a tool in the order of the calls: tasks.append at 1437, 1446,
\* 1453 of main.py; lines 166-168 of api/osint.py
Rank(t) ==
    CASE t = "sherlock" -> 1 [] t = "maigret" -> 2 [] t = "holehe" -> 3 [] OTHER -> 4

\* the selected tools whose call has not started
NotStarted == {t \in Selected(endpoint, request) : started[t] = NotYet}

\* the first of a set of tools in the order of the calls
FirstOfTools(ts) == CHOOSE t \in ts : \A u \in ts : Rank(t) <= Rank(u)

\* a task of the sweep runs for the first time, in the order the tasks were
\* made: search_username (1433) and search_email (1442) hand their tool to the
\* executor and wait, search_phone (1451-1452) runs phone_search to its end
TaskStarts(t) ==
    /\ pc = "scheduled"
    /\ NotStarted # {}
    /\ t = FirstOfTools(NotStarted)
    /\ started' = [started EXCEPT ![t] = now]
    /\ IF t = "phone"
       THEN /\ returned' = [returned EXCEPT ![t] = now]
            /\ results' = [results EXCEPT ![t] = phone_search(request.phone)]
       ELSE UNCHANGED <<returned, results>>
    /\ pc' = IF NotStarted = {t} THEN "gathering" ELSE "scheduled"
    /\ UNCHANGED <<endpoint, request, env, now, response, post, varsNames, varsMerge, varsInvestigate, varsPool, varsImages>>

\* when the call of a started tool returns
ReturnTime(t) == started[t] + Took(endpoint, request, t, env[t])

Running == {t \in Tools : started[t] # NotYet /\ returned[t] = NotYet}

\* the call of tool t returns (the earliest of the running calls first) and
\* its coroutine stores the result
ToolReturns(t) ==
    /\ pc = "gathering"
    /\ t \in Running
    /\ \A u \in Running : ReturnTime(t) <= ReturnTime(u)
    /\ now' = ReturnTime(t)
    /\ returned' = [returned EXCEPT ![t] = ReturnTime(t)]
    /\ results' = [results EXCEPT ![t] = Call(endpoint, request, t, env[t])]
    /\ UNCHANGED <<pc, endpoint, request, env, started, response, post, varsNames, varsMerge, varsInvestigate, varsPool, varsImages>>

\* full_username_search, lines 471-492: the response
UsernameFullResponse(req, res) ==
    [username |-> req.username,
     sherlock |-> res["sherlock"],
     maigret |-> res["maigret"],
     combined |-> Combined(res["sherlock"].found, res["maigret"].found)]

\* the sweep answering as soon as one of its tasks is done
\* (asyncio.wait(tasks, return_when=FIRST_COMPLETED) for line 1457)
RespondOnFirst ==
    /\ pc = "gathering"
    /\ IF endpoint = "sweep"
       THEN Running # Selected(endpoint, request) \/ Selected(endpoint, request) = {}
       ELSE Running = {}
    /\ IF \E t \in Tools : results[t] = Raised
       THEN /\ pc' = "failed"
            /\ response' = None
       ELSE /\ pc' = "done"
            /\ response' = IF endpoint = "username_full"
                           THEN UsernameFullResponse(request, results)
                           ELSE SweepResponse(request, results)
    /\ UNCHANGED <<endpoint, request, env, now, started, returned, results, post,
                   varsNames, varsMerge, varsInvestigate, varsPool, varsImages>>

\* asyncio.gather returns once every task is done (lines 467-469, 1456-1457);
\* an exception of a task leaves the handler
Respond ==
    /\ pc = "gathering"
    /\ Running = {}
    /\ IF \E t \in Tools : results[t] = Raised
       THEN /\ pc' = "failed"
            /\ response' = None
       ELSE /\ pc' = "done"
            /\ response' = IF endpoint = "username_full"
                           THEN UsernameFullResponse(request, results)
                           ELSE SweepResponse(request, results)
    /\ UNCHANGED <<endpoint, request, env, now, started, returned, results, post,
                   varsNames, varsMerge, varsInvestigate, varsPool, varsImages>>

(***************************************************************************)
(* The handler of api/osint.py: do_POST (134-175).  It waits in            *)
(* subprocess.run once for each tool it calls, in the order sherlock,      *)
(* maigret, holehe; nothing else runs meanwhile.                           *)
(***************************************************************************)
\* lines 155-169: the result written
PostResult(req, res) ==
    CASE req.action = "sherlock" /\ Truthy(req.username) -> res["sherlock"]
      [] req.action = "maigret" /\ Truthy(req.username) -> res["maigret"]
      [] req.action = "holehe" /\ Truthy(req.email) -> res["holehe"]
      [] req.action = "sweep" ->
           [sweep_type |-> "full", sherlock |-> res["sherlock"],
            maigret |-> res["maigret"], holehe |-> res["holehe"]]
      [] OTHER -> [status |-> "error", message |-> "Invalid request"]

\* subprocess.run of tool t starts, after the seconds `at`
PostCalls(t, at) ==
    /\ \E e \in RunsOf("api", t) : env' = [env EXCEPT ![t] = e]
    /\ started' = [started EXCEPT ![t] = at]
    /\ pc' = "posting"
    /\ UNCHANGED response

\* lines 135-175 up to the first subprocess.run.  A body that is JSON but no
\* dict raises in line 148 or 151: the exception leaves do_POST and nothing is
\* written.  A request that runs no tool is answered at once.
do_POST ==
    \E body \in Bodies, query \in Queries :
        /\ pc = "idle"
        /\ endpoint' = "api"
        /\ post' = [body |-> body, query |-> query]
        /\ IF ~body.is_dict
           THEN /\ pc' = "failed"
                /\ UNCHANGED <<request, env, started, response>>
           ELSE LET req == PostRequest(PostData(body, query))
                    sel == Selected("api", req)
                IN  /\ request' = req
                    /\ IF sel = {}
                       THEN /\ pc' = "done"
                            /\ response' = PostResult(req, results)
                            /\ UNCHANGED <<env, started>>
                       ELSE PostCalls(FirstOfTools(sel), now)
        /\ UNCHANGED <<now, returned, results, varsNames, varsMerge, varsInvestigate, varsPool, varsImages>>

\* subprocess.run of tool t returns and the adapter with it; do_POST calls the
\* next tool (lines 166-168) or, after the last, writes the result (171-175)
PostToolReturns(t) ==
    /\ pc = "posting"
    /\ t \in Running
    /\ LET at == ReturnTime(t)
           res == [results EXCEPT ![t] = Call("api", request, t, env[t])]
       IN  /\ now' = at
           /\ returned' = [returned EXCEPT ![t] = at]
           /\ results' = res
           /\ IF NotStarted = {}
              THEN /\ pc' = "done"
                   /\ response' = PostResult(request, res)
                   /\ UNCHANGED <<env, started>>
              ELSE PostCalls(FirstOfTools(NotStarted), at)
    /\ UNCHANGED <<endpoint, request, post, varsNames, varsMerge, varsInvestigate, varsPool, varsImages>>

Init == Idle /\ NoNames /\ NoMerge /\ NoInvestigation /\ NoPool /\ NoImages

Next ==
    \/ FullUsernameSearch
    \/ FullOsintSweep
    \/ \E t \in Tools : TaskStarts(t)
    \/ \E t \in Tools : ToolReturns(t)
    \/ Respond
    \/ do_POST
    \/ \E t \in Tools : PostToolReturns(t)

Spec == Init /\ [][Next]_vars

(***************************************************************************)
(* Properties of a round                                                   *)
(***************************************************************************)
\* the outcome the response carries for tool t (None if it carries none)
ResponseOutcome(t) ==
    CASE response = None -> None
      [] endpoint = "username_full" ->
           CASE t = "sherlock" -> response.sherlock
             [] t = "maigret" -> response.maigret
             [] OTHER -> None
      [] endpoint = "sweep" ->
           CASE t = "sherlock" -> response.username_results
             [] t = "holehe" -> response.email_results
             [] t = "phone" -> response.phone_results
             [] OTHER -> None
      [] endpoint = "api" /\ request.action = "sweep" ->
           CASE t = "sherlock" -> response.sherlock
             [] t = "maigret" -> response.maigret
             [] t = "holehe" -> response.holehe
             [] OTHER -> None
      [] endpoint = "api" /\ Selected(endpoint, request) = {t} -> response
      [] OTHER -> None

Sel == Selected(endpoint, request)

Finished == pc \in {"done", "failed"}

\* C1: a request that selects k adapters is answered with exactly k
\* per-adapter outcomes, one for each selected adapter, whatever the tools do.
C1_OneOutcomePerSelected ==
    Finished =>
        /\ {t \in Tools : ResponseOutcome(t) # None} = Sel
        /\ \A t \in Sel \ {"phone"} : ResponseOutcome(t).tool = t
        /\ "phone" \in Sel => ResponseOutcome("phone").phone = request.phone

\* a sweep of three adapters, one hanging and one not installed
C1_Witness ==
    /\ pc = "done"
    /\ endpoint = "sweep"
    /\ Cardinality(Sel) = 3
    /\ env["sherlock"].fate = "hang"
    /\ env["holehe"].fate = "missing"
    /\ Cardinality({t \in Tools : ResponseOutcome(t) # None}) = 3

\* the external call of a tool failed: the executable is missing, the call
\* raised, it timed out, it ended with a non-zero status, or its output file
\* cannot be taken apart
ToolFailed(t) ==
    LET e == env[t]
    IN  \/ e.fate \in {"missing", "oserror"}
        \/ TimedOut(e, Kill(endpoint, request, t))
        \/ e.fate = "exit" /\ (e.rc # 0 \/ e.file.state \in {"bad", "nondict"})

\* C2: no failure of an adapter leaves the round of main.py: the round
\* returns a result, and each failure is an entry of that adapter's errors.
C2_FailuresOnlyInErrors ==
    /\ endpoint \in {"username_full", "sweep"} => pc # "failed"
    /\ (pc = "done" /\ endpoint \in {"username_full", "sweep"}) =>
          \A t \in Sel \ {"phone"} : ToolFailed(t) => ResponseOutcome(t).errors # <<>>

\* C3: a round of two adapters in which one, called with the timeout of 60,
\* never returns and the other ends after 5 is over no later than 60 after
\* its start, with the slow adapter's outcome timed out and the other's kept.
C3_RoundWithinSlowestTimeout ==
    (pc = "done" /\ endpoint \in {"username_full", "sweep"}) =>
        \A slow \in Sel :
            ( /\ env[slow].fate = "hang"
              /\ CallTimeout(endpoint, request, slow) = DefaultTimeout
              /\ Sel \ {slow, "phone"} # {}
              /\ \A u \in Sel \ {slow, "phone"} :
                    env[u].fate = "exit" /\ env[u].dur = FastDur ) =>
                /\ now <= DefaultTimeout
                /\ ResponseOutcome(slow).errors = <<ErrTimedOut>>
                /\ \A u \in Sel \ {slow} :
                      ResponseOutcome(u) = Call(endpoint, request, u, env[u])

\* C4: an adapter whose executable is missing gives an outcome without
\* findings whose error message no other run of the tool gives, and the
\* other adapters' outcomes are those of their own runs.
C4_UnavailableIsolated ==
    pc = "done" =>
        \A t \in Sel :
            env[t].fate = "missing" =>
                LET o == ResponseOutcome(t)
                IN  /\ o.found = <<>>
                    /\ Len(o.errors) = 1
                    /\ \A e \in RunsOf(endpoint, t) :
                          e.fate # "missing" =>
                              LET other == Call(endpoint, request, t, e)
                              IN  \A k \in 1..Len(other.errors) :
                                      other.errors[k].msg # o.errors[1].msg
                    /\ \A u \in Sel \ {t} :
                          ResponseOutcome(u) = Call(endpoint, request, u, env[u])

\* sherlock is not installed and maigret reports findings
C4_Witness ==
    /\ pc = "done"
    /\ endpoint = "username_full"
    /\ env["sherlock"].fate = "missing"
    /\ response.sherlock.found = <<>>
    /\ response.maigret.found # <<>>
    /\ response.combined.total_unique_profiles > 0

\* the request is a sweep: full_osint_sweep, or do_POST with the action sweep
IsSweep ==
    \/ endpoint = "sweep"
    \/ endpoint = "api" /\ request.action = "sweep"

\* the adapters a sweep can run
SweepAdapters ==
    IF endpoint = "sweep" THEN {"sherlock", "holehe", "phone"}
    ELSE {"sherlock", "maigret", "holehe"}

\* the attribute of the request that adapter t consumes
Consumed(t) ==
    CASE t \in {"sherlock", "maigret"} -> request.username
      [] t = "holehe" -> request.email
      [] OTHER -> request.phone

\* adapter t was invoked
Invoked(t) == started[t] # NotYet

\* C18: in a sweep an adapter is invoked if and only if the attribute it
\* consumes (username, email, phone) is present and non-empty in the request.
C18_InvokedIffAttributeSupplied ==
    (Finished /\ IsSweep) =>
        \A t \in SweepAdapters : Invoked(t) <=> Truthy(Consumed(t))

\* the result is an error result
InputError(r) == "status" \in DOMAIN r /\ r.status = "error"

\* C19: a sweep that selects no adapter is answered with an input-error
\* result, and no adapter is invoked for it.
C19_ZeroAdaptersInputError ==
    (Finished /\ IsSweep /\ Sel = {}) =>
        /\ InputError(response)
        /\ \A t \in Tools : ~Invoked(t)

\* C20: a response exists only when every selected adapter has returned its
\* outcome, and the response carries those outcomes.
C20_ResponseAfterAllOutcomes ==
    response # None =>
        \A t \in Sel :
            /\ returned[t] # NotYet
            /\ returned[t] <= now
            /\ results[t] # None
            /\ ResponseOutcome(t) = results[t]

\* a sweep of three adapters that return at three different times
C20_Witness ==
    /\ pc = "done"
    /\ endpoint = "sweep"
    /\ Sel = {"sherlock", "holehe", "phone"}
    /\ returned["phone"] < returned["holehe"]
    /\ returned["holehe"] < returned["sherlock"]
    /\ now = returned["sherlock"]
    /\ response.email_results.found # <<>>


\* C21: in a round every selected adapter is started at the same time, before
\* any of them is waited for, and the round takes no longer than its slowest
\* adapter; for full_username_search, both sweeps and do_POST alike.
C21_AllStartedBeforeAnyAwaited ==
    (Finished /\ Sel # {}) =>
        /\ \A t, u \in Sel : started[t] = started[u]
        /\ \E t \in Sel : now <= Took(endpoint, request, t, env[t])

\* C23: an adapter of main.py called with the timeout T whose tool never
\* ends has returned, timed out, no later than T after its call started.
C23_HungAdapterWithinTimeout ==
    \A t \in Tools \ {"phone"} :
        ( /\ endpoint \in {"username_full", "sweep"}
          /\ returned[t] # NotYet
          /\ env[t].fate = "hang" ) =>
            /\ returned[t] - started[t] <= CallTimeout(endpoint, request, t)
            /\ results[t].errors = <<ErrTimedOut>>

\* the value of a key as the claim words it: the body's if the body has the
\* key, else the query string's
ClaimedAction ==
    LET a == IF post.body.action # "absent" THEN post.body.action ELSE post.query.action
    IN  IF a = "absent" THEN "sweep" ELSE a

ClaimedUsername ==
    IF post.body.username # Absent THEN post.body.username ELSE post.query.username

ClaimedEmail == IF post.body.email # Absent THEN post.body.email ELSE post.query.email

Present(v) == v # Absent /\ Truthy(v)

\* C30: do_POST answers 'Invalid request' exactly when the action is sherlock
\* or maigret without a username, holehe without an email, or none of
\* sherlock, maigret, holehe, sweep; then no tool is run.  The body's value
\* of a key goes before the query string's; a missing action is sweep.
C30_InvalidRequestExactly ==
    (Finished /\ endpoint = "api") =>
        LET invalid ==
                \/ ClaimedAction \in {"sherlock", "maigret"} /\ ~Present(ClaimedUsername)
                \/ ClaimedAction = "holehe" /\ ~Present(ClaimedEmail)
                \/ ClaimedAction \notin {"sherlock", "maigret", "holehe", "sweep"}
        IN  /\ (response = [status |-> "error", message |-> "Invalid request"]) <=> invalid
            /\ invalid => \A t \in Tools : ~Invoked(t)
            /\ ~invalid =>
                   /\ pc = "done"
                   /\ request.action = ClaimedAction
                   /\ Truthy(request.username) <=> Present(ClaimedUsername)
                   /\ Truthy(request.username) => request.username = ClaimedUsername
                   /\ Truthy(request.email) <=> Present(ClaimedEmail)
                   /\ ClaimedAction = "sweep" =>
                          /\ Invoked("sherlock") <=> Present(ClaimedUsername)
                          /\ Invoked("holehe") <=> Present(ClaimedEmail)

(***************************************************************************)
(* Specification of the merges.  full_username_search: any two finding     *)
(* lists of at most MaxFound findings together, and any list of at most    *)
(* MaxFound findings reported by both tools, are the results it holds at   *)
(* line 471.  multi_username_search: the whole handler, from no request.   *)
(***************************************************************************)
InitMerge ==
    /\ \/ /\ \/ \E a \in 0..MaxFound : \E b \in 0..(MaxFound - a) :
                   /\ sherlock_found \in [1..a -> SherlockFindings]
                   /\ maigret_found \in [1..b -> MaigretFindings]
             \/ /\ sherlock_found \in SeqUpTo(SherlockFindings, MaxFound)
                /\ maigret_found = sherlock_found
          /\ merged = "no"
       \/ /\ sherlock_found = <<>>
          /\ maigret_found = <<>>
          /\ merged = "idle"
    /\ profiles = <<>>
    /\ multi = NoMulti
    /\ NoNames
    /\ Idle
    /\ NoInvestigation
    /\ NoPool
    /\ NoImages

\* the merge of full_username_search
MergeFull ==
    /\ merged = "no"
    /\ profiles' = Combined(sherlock_found, maigret_found).profiles
    /\ merged' = "full"
    /\ UNCHANGED <<sherlock_found, maigret_found, multi, varsNames, varsRound, varsInvestigate, varsPool, varsImages>>

\* the usernames a request gives: none, or three
MultiGiven == {<<>>, << <<"u", "1">>, <<"u", "2">>, <<"u", "3">> >>}

\* one error more than the response of multi_username_search returns
ManyErrors ==
    [i \in 1..(MultiErrorsLimit + 1) |-> Err("status", <<"S" \o ToString(i), "Illegal">>)]

\* the future of run_in_executor carries an exception
SearchRaised == [raised |-> TRUE, found |-> <<>>, errors |-> <<>>]

\* what a search of run_sherlock gives to multi_username_search: at most n
\* findings, or ManyErrors, or an exception
SearchResults(n) ==
    {[raised |-> FALSE, found |-> f, errors |-> <<>>] : f \in SeqUpTo(SherlockFindings, n)}
    \cup {[raised |-> FALSE, found |-> <<>>, errors |-> ManyErrors], SearchRaised}

\* the entries of a sequence of lists, in order
RECURSIVE Flatten(_)
Flatten(lists) == IF lists = <<>> THEN <<>> ELSE Head(lists) \o Flatten(Tail(lists))

Reverse(xs) == [i \in 1..Len(xs) |-> xs[Len(xs) + 1 - i]]

\* f"{username}: {e}"
MultiError(username, e) == [username |-> username, error |-> e]

\* lines 1395-1403: the response
MultiResponse(req, searched_usernames, all_found, all_errors) ==
    [name |-> req.name,
     usernames_searched |-> searched_usernames,
     total_profiles_found |-> Len(all_found),
     profiles |-> Values(all_found),
     errors |-> Take(all_errors, MultiErrorsLimit)]

\* multi_username_search, lines 1351-1379: the usernames of the request or, if
\* it has none, the variations of its name; the first max_usernames of them;
\* the first username noted as searched and its search handed to the
\* executor.  Without a username the response is built at once.
MultiUsernameSearch ==
    \E name \in {<<>>, SomeName}, given \in MultiGiven, max_usernames \in 0..MaxSearched :
        LET req == MultiRequest(name, given, max_usernames)
            usernames == Take(IF given = <<>> THEN generate_username_variations(name)
                              ELSE given,
                              max_usernames)
        IN  /\ merged = "idle"
            /\ IF usernames = <<>>
               THEN /\ merged' = "multi"
                    /\ profiles' = <<>>
                    /\ multi' = MultiState(req, usernames, <<>>, <<>>, <<>>, <<>>,
                                           MultiResponse(req, <<>>, <<>>, <<>>))
               ELSE /\ merged' = "searching"
                    /\ multi' = MultiState(req, usernames, <<usernames[1]>>, <<>>, <<>>, <<>>, None)
                    /\ UNCHANGED profiles
            /\ UNCHANGED <<sherlock_found, maigret_found, varsNames, varsRound, varsInvestigate, varsPool, varsImages>>

\* lines 1374-1392: the search of the username noted last returns or raises;
\* its findings are merged and its errors added (1381-1389), or the message
\* of the exception is (1391-1392).  Then the next username is noted and its
\* search handed to the executor (1371-1379), or, after the last, the response
\* is built (1394-1403).
MultiSearchReturns ==
    /\ merged = "searching"
    /\ \E result \in SearchResults(MaxMultiFound - Len(Flatten(multi.founds))) :
           LET k == Len(multi.searched_usernames)
               username == multi.usernames[k]
               all_found == IF result.raised THEN multi.all_found
                            ELSE MergeSearched(result.found, username, multi.all_found)
               all_errors ==
                   multi.all_errors \o
                   (IF result.raised
                    THEN <<MultiError(username, Err("str(e)", <<"RuntimeError">>))>>
                    ELSE [i \in 1..Len(result.errors) |-> MultiError(username, result.errors[i])])
               founds == Append(multi.founds, result.found)
           IN  IF k < Len(multi.usernames)
               THEN /\ merged' = "searching"
                    /\ multi' = MultiState(multi.request, multi.usernames,
                                           Append(multi.searched_usernames, multi.usernames[k + 1]),
                                           all_found, all_errors, founds, None)
                    /\ UNCHANGED profiles
               ELSE /\ merged' = "multi"
                    /\ profiles' = Values(all_found)
                    /\ multi' = MultiState(multi.request, multi.usernames,
                                           multi.searched_usernames, all_found, all_errors, founds,
                                           MultiResponse(multi.request, multi.searched_usernames,
                                                         all_found, all_errors))
    /\ UNCHANGED <<sherlock_found, maigret_found, varsNames, varsRound, varsInvestigate, varsPool, varsImages>>

NextMerge == MergeFull \/ MultiUsernameSearch \/ MultiSearchReturns

SpecMerge == InitMerge /\ [][NextMerge]_vars

\* the findings that went into the merge, in priority order
AllInputs ==
    IF merged = "multi" THEN Flatten(multi.founds) ELSE sherlock_found \o maigret_found

\* C5: the merge of full_username_search is idempotent: a finding list merged
\* with itself gives the entries of the list merged alone (as the first
\* list), and the URL keys of the list merged alone as the second list.
C5_MergeIdempotent ==
    (merged = "full" /\ sherlock_found = maigret_found) =>
        /\ profiles = Combined(sherlock_found, <<>>).profiles
        /\ UrlsOf(profiles) = UrlsOf(Combined(<<>>, maigret_found).profiles)

\* a list with two findings of one URL under different platforms, merged with itself
C5_Witness ==
    /\ merged = "full"
    /\ sherlock_found = maigret_found
    /\ Len(sherlock_found) = 3
    /\ \E i, j \in 1..Len(sherlock_found) :
          /\ i < j
          /\ sherlock_found[i].url = sherlock_found[j].url
          /\ sherlock_found[i].url # EmptyUrl
          /\ sherlock_found[i].platform # sherlock_found[j].platform
    /\ Len(profiles) = 2

\* C6: the set of URL keys of the merged result is the same whichever of the
\* two lists is merged first (full_username_search and multi_username_search).
C6_UrlSetOrderIndependent ==
    /\ merged = "full" =>
          UrlsOf(profiles) = UrlsOf(Combined(maigret_found, sherlock_found).profiles)
    /\ merged = "multi" =>
          /\ profiles = Values(MultiMerge(multi.searched_usernames, multi.founds, <<>>))
          /\ UrlsOf(profiles) =
                 UrlsOf(Values(MultiMerge(Reverse(multi.searched_usernames),
                                          Reverse(multi.founds), <<>>)))

\* two different lists sharing a URL under different platforms: the kept
\* label depends on the order, the key set does not
C6_Witness ==
    /\ merged = "full"
    /\ sherlock_found # <<>>
    /\ maigret_found # <<>>
    /\ \E i \in 1..Len(sherlock_found) : \E j \in 1..Len(maigret_found) :
          /\ sherlock_found[i].url = maigret_found[j].url
          /\ sherlock_found[i].url # EmptyUrl
          /\ sherlock_found[i].platform # maigret_found[j].platform
    /\ profiles # Combined(maigret_found, sherlock_found).profiles
    /\ \E j \in 1..Len(maigret_found) : maigret_found[j].url \notin UrlsOf(sherlock_found) \cup {EmptyUrl}

\* C7: in a merged collection no two findings have the same canonical URL.
C7_CanonicalUrlUnique ==
    merged \in {"full", "multi"} =>
        \A i, j \in 1..Len(profiles) :
            i # j => Canon(profiles[i].url) # Canon(profiles[j].url)

\* C8: an entry of the merged collection carries the platform label of the
\* first finding, in priority order, that has its URL, and the union of the
\* tags of all findings that have its URL.
C8_FirstLabelTagsUnion ==
    merged = "full" =>
        \A k \in 1..Len(profiles) :
            LET same == {i \in 1..Len(AllInputs) : AllInputs[i].url = profiles[k].url}
                firstSeen == CHOOSE i \in same : \A j \in same : i <= j
            IN  /\ same # {}
                /\ profiles[k].platform = AllInputs[firstSeen].platform
                /\ profiles[k].tags = UNION {AllInputs[i].tags : i \in same}

\* C9: two findings whose URLs differ only in the case of scheme or host, in
\* a trailing slash or in a query string give a single merged entry.
C9_VariantsMergeToOne ==
    merged \in {"full", "multi"} =>
        \A i, j \in 1..Len(AllInputs) :
            (AllInputs[i].url # EmptyUrl /\ Canon(AllInputs[i].url) = Canon(AllInputs[j].url)) =>
                Cardinality({k \in 1..Len(profiles) :
                    Canon(profiles[k].url) = Canon(AllInputs[i].url)}) = 1

(***************************************************************************)
(* Specification of the generator: any name up to MaxNameLen characters    *)
(***************************************************************************)
InitNames ==
    /\ full_name \in SeqUpTo(Alphabet, MaxNameLen)
    /\ variations = <<>>
    /\ called = FALSE
    /\ history = <<>>
    /\ NoMerge
    /\ Idle
    /\ NoInvestigation
    /\ NoPool
    /\ NoImages

\* a call of generate_username_variations(full_name)
Generate ==
    /\ Len(history) < MaxCalls
    /\ variations' = generate_username_variations(full_name)
    /\ called' = TRUE
    /\ history' = Append(history, variations')
    /\ UNCHANGED <<full_name, varsMerge, varsRound, varsInvestigate, varsPool, varsImages>>

NextNames == Generate

SpecNames == InitNames /\ [][NextNames]_vars

\* C10: generate_username_variations returns no candidate shorter than 3
\* characters, whatever the name (one token, several tokens, empty).
C10_NoShortCandidate ==
    called => \A i \in 1..Len(variations) : Len(variations[i]) >= 3

\* the tokens of the name, lower-cased
Tokens == split(lower(full_name))

\* the place of the first occurrence of candidate v in the list xs (0 if none)
FirstAt(v, xs) ==
    IF \E i \in 1..Len(xs) : xs[i] = v
    THEN CHOOSE i \in 1..Len(xs) : xs[i] = v /\ \A j \in 1..(i - 1) : xs[j] # v
    ELSE 0

\* C11: the returned list has no duplicate, and for a name of several tokens
\* it holds exactly the candidates longer than 2 characters, in the order of
\* their first occurrence in the fixed candidate list.
C11_NoDuplicateFirstOccurrenceOrder ==
    called =>
        /\ \A i, j \in 1..Len(variations) : i # j => variations[i] # variations[j]
        /\ Len(Tokens) >= 2 =>
              LET fixed == Candidates(Tokens)
              IN  /\ \A i \in 1..Len(variations) : FirstAt(variations[i], fixed) > 0
                  /\ \A k \in 1..Len(fixed) :
                        Len(fixed[k]) > 2 => FirstAt(fixed[k], variations) > 0
                  /\ \A i, j \in 1..Len(variations) :
                        i < j => FirstAt(variations[i], fixed) < FirstAt(variations[j], fixed)

\* a name whose candidate list repeats a candidate longer than 2 characters
C11_Witness ==
    /\ called
    /\ Len(Tokens) >= 2
    /\ \E i, j \in 1..Len(Candidates(Tokens)) :
          /\ i < j
          /\ Candidates(Tokens)[i] = Candidates(Tokens)[j]
          /\ Len(Candidates(Tokens)[i]) > 2
    /\ Len(variations) < Len(SelectSeq(Candidates(Tokens), LAMBDA v : Len(v) > 2))

\* C12: for a name that is one token without whitespace the result is the
\* one-element list of that token, lower-cased character by character.
C12_SingleTokenLowerCased ==
    (called /\ full_name # <<>> /\ \A i \in 1..Len(full_name) : ~IsSpace(full_name[i])) =>
        /\ Len(variations) = 1
        /\ Len(variations[1]) = Len(full_name)
        /\ \A i \in 1..Len(full_name) : variations[1][i] = LowerChar(full_name[i])

\* a single token with an upper-case letter
C12_Witness ==
    /\ called
    /\ full_name = <<"a", "B", "a">>
    /\ variations = << <<"a", "b", "a">> >>

Fmt(msg, args) == [msg |-> msg, args |-> args]

\* a step record without the key 'result'
NoKey == Fmt("", <<>>)

\* the record a step appends (lines 1542-1546, 1575-1579, 1606-1610)
StepRecord(step, action) ==
    [step |-> step, action |-> action, status |-> "running", result |-> NoKey]

\* the step's outcome appended as a record of its own
SetLastAppended(steps, status, result) ==
    Append(steps, [steps[Len(steps)] EXCEPT !.status = status, !.result = result])

\* flow_steps[-1]["status"] = status; flow_steps[-1]["result"] = result
SetLast(steps, status, result) ==
    [steps EXCEPT ![Len(steps)] = [@ EXCEPT !.status = status, !.result = result]]

\* str.replace(' ', with)
RECURSIVE ReplaceSpaceWith(_, _)
ReplaceSpaceWith(str, with) ==
    IF str = <<>> THEN <<>>
    ELSE (IF Head(str) = " " THEN with ELSE <<Head(str)>>) \o ReplaceSpaceWith(Tail(str), with)

\* lines 1537-1539
FirstOf(name) == LET parts == split(lower(name)) IN IF parts # <<>> THEN parts[1] ELSE <<>>

LastOf(name) == LET parts == split(lower(name)) IN IF parts # <<>> THEN parts[Len(parts)] ELSE <<>>

Link(name, url, type) == [name |-> name, url |-> url, type |-> type]

\* lines 1548-1568
PeopleSearchLinks(req) ==
    LET first == FirstOf(req.name)
        last == LastOf(req.name)
        q20 == ReplaceSpaceWith(req.name, <<"%", "2", "0">>)
        dashed == ReplaceSpaceWith(req.name, <<"-">>)
        links ==
          << Link("TruePeopleSearch", Fmt("https://www.truepeoplesearch.com/results?name={}", <<q20>>), "free"),
             Link("FastPeopleSearch", Fmt("https://www.fastpeoplesearch.com/name/{}", <<dashed>>), "free"),
             Link("Whitepages", Fmt("https://www.whitepages.com/name/{}-{}", <<first, last>>), "free"),
             Link("Spokeo", Fmt("https://www.spokeo.com/{}-{}", <<first, last>>), "paid"),
             Link("BeenVerified", Fmt("https://www.beenverified.com/people/{}-{}/", <<first, last>>), "paid"),
             Link("Intelius", Fmt("https://www.intelius.com/people-search/{}-{}/", <<first, last>>), "paid"),
             Link("ThatsThem", Fmt("https://thatsthem.com/name/{}-{}", <<first, last>>), "free"),
             Link("USSearch", Fmt("https://www.ussearch.com/search/results/people?firstName={}&lastName={}", <<first, last>>), "paid"),
             Link("Facebook", Fmt("https://www.facebook.com/search/people?q={}", <<q20>>), "social"),
             Link("LinkedIn", Fmt("https://www.linkedin.com/search/results/people/?keywords={}", <<q20>>), "social"),
             Link("Instagram", Fmt("https://www.instagram.com/{}{}/", <<first, last>>), "social"),
             Link("Twitter/X", Fmt("https://twitter.com/search?q={}&f=user", <<q20>>), "social") >>
    IN  IF Truthy(req.location)
        THEN LET loc == ReplaceSpaceWith(req.location, <<"%", "2", "0">>)
             IN  links \o
                 << Link("TruePeopleSearch (Location)",
                         Fmt("https://www.truepeoplesearch.com/results?name={}&citystatezip={}", <<q20, loc>>), "free"),
                    Link("Whitepages (Location)",
                         Fmt("https://www.whitepages.com/name/{}-{}/{}", <<first, last, loc>>), "free") >>
        ELSE links

\* service.lower().replace(' ', '') of the service names the tools print
LowerName(n) ==
    CASE n = "GitHub" -> "github" [] n = "Twitter" -> "twitter"
      [] n = "Reddit" -> "reddit" [] n = "GitLab" -> "gitlab" [] OTHER -> n

\* lines 1591-1596: the profile of a service holehe reports
HoleheProfile(service, email) ==
    [platform |-> service.service, source |-> "holehe (email)", email |-> email,
     url |-> Url("https", LowerName(service.service) \o ".com", "", FALSE, "")]

\* lines 1628-1633: the profile of a finding of sherlock
SherlockProfile(profile, username) ==
    [platform |-> profile.platform, url |-> profile.url, username |-> username,
     source |-> "sherlock"]

\* loop.run_in_executor raises (the executor takes no more work): no adapter runs
ExecutorRaises == ToolRun("raise", 0, 0, NoFile, <<>>)

\* a Claimed site without url_user in sherlock's JSON file
DocNoUrl == <<SiteInfo("GitHub", "Claimed", FALSE, EmptyUrl, {})>>

\* what the email check of step 2 can meet
InvHoleheRuns ==
    { ExecutorRaises,
      ToolRun("missing", 0, 0, NoFile, <<>>),
      ToolRun("exit", 0, FastDur, NoFile, <<>>),
      ToolRun("exit", 0, FastDur, NoFile, <<Line("+", "GitHub", U1)>>),
      ToolRun("exit", 0, FastDur, NoFile,
              <<Line("+", "Twitter", U2), Line("-", "Reddit", EmptyUrl), Line("+", "GitLab", EmptyUrl)>>) }

\* what a username search of step 3 can meet
InvSherlockRuns ==
    { ExecutorRaises,
      ToolRun("hang", 0, 0, NoFile, <<>>),
      ToolRun("exit", 0, FastDur, JsonFile("ok", DocOne), <<>>),
      ToolRun("exit", 0, FastDur, NoFile, <<Line("+", "Twitter", U1)>>),
      ToolRun("exit", 0, FastDur, JsonFile("ok", DocMixed), <<>>),
      ToolRun("exit", 0, FastDur, JsonFile("ok", DocNoUrl), <<>>) }

\* what awaiting the call of an adapter gives: its dict, or the exception
InvCall(tool, e) ==
    CASE e = ExecutorRaises -> Raised
      [] tool = "holehe" -> run_holehe(e, InvestigateHoleheTimeout)
      [] OTHER -> run_sherlock(e, InvestigateSherlockTimeout)

\* a call not yet returned
Pending == [tool |-> "pending"]

\* an entry of the log of calls
CallRecord(tool, arg, result) == [tool |-> tool, arg |-> arg, result |-> result]

\* lines 1625-1634 without the test of line 1627 for a known URL
RECURSIVE FoldSherlockAll(_, _, _, _)
FoldSherlockAll(found, username, all_found, confirmed) ==
    IF found = <<>> THEN [all_found |-> all_found, confirmed |-> confirmed]
    ELSE LET profile == Head(found)
             url == profile.url
         IN  IF url # EmptyUrl
             THEN FoldSherlockAll(Tail(found), username,
                      DictSet(all_found, url, SherlockProfile(profile, username)),
                      Append(confirmed, SherlockProfile(profile, username)))
             ELSE FoldSherlockAll(Tail(found), username, all_found, confirmed)

\* lines 1625-1634 with the test of line 1627 for the known URL only
RECURSIVE FoldSherlockAnyUrl(_, _, _, _)
FoldSherlockAnyUrl(found, username, all_found, confirmed) ==
    IF found = <<>> THEN [all_found |-> all_found, confirmed |-> confirmed]
    ELSE LET profile == Head(found)
             url == profile.url
         IN  IF url \notin Keys(all_found)
             THEN FoldSherlockAnyUrl(Tail(found), username,
                      DictSet(all_found, url, SherlockProfile(profile, username)),
                      Append(confirmed, SherlockProfile(profile, username)))
             ELSE FoldSherlockAnyUrl(Tail(found), username, all_found, confirmed)

\* lines 1625-1634: the findings of one username search
RECURSIVE FoldSherlock(_, _, _, _)
FoldSherlock(found, username, all_found, confirmed) ==
    IF found = <<>> THEN [all_found |-> all_found, confirmed |-> confirmed]
    ELSE LET profile == Head(found)
             url == profile.url
         IN  IF url # EmptyUrl /\ url \notin Keys(all_found)
             THEN FoldSherlock(Tail(found), username,
                      DictSet(all_found, url, SherlockProfile(profile, username)),
                      Append(confirmed, SherlockProfile(profile, username)))
             ELSE FoldSherlock(Tail(found), username, all_found, confirmed)

\* lines 1620-1637 with a failed search discarding what was found so far
AfterSearchReset(result, username, all_found, confirmed) ==
    IF result = Raised
    THEN [all_found |-> <<>>, confirmed |-> <<>>]
    ELSE FoldSherlock(result.found, username, all_found, confirmed)

\* lines 1620-1637: one pass of the loop, after the await
AfterSearch(result, username, all_found, confirmed) ==
    IF result = Raised
    THEN [all_found |-> all_found, confirmed |-> confirmed]
    ELSE FoldSherlock(result.found, username, all_found, confirmed)

\* lines 1589-1596 taking the first service only
HoleheProfilesFirst(result, email) ==
    [i \in 1..(IF result.found = <<>> THEN 0 ELSE 1) |-> HoleheProfile(result.found[i], email)]

\* lines 1589-1596: the profiles of the services of the email check
HoleheProfiles(result, email) ==
    [i \in 1..Len(result.found) |-> HoleheProfile(result.found[i], email)]

InvNames == {<<>>, SomeName}

InvEmails == {NoneStr, <<>>, SomeEmail}

InvLocations == {NoneStr, <<"L", " ", "A">>}

\* the username searches made so far
SherlockCalls == SelectSeq(calls, LAMBDA c : c.tool = "sherlock")

\* lines 1530-1546 with the four lists made once, at module level
BeginStep1Shared ==
    /\ inv_pc = "idle"
    /\ \E name \in InvNames, email \in InvEmails, location \in InvLocations :
          inv_request' = InvRequest(name, email, location)
    /\ flow_steps' = Append(flow_steps, StepRecord(1, Fmt("Generate people search links", <<>>)))
    /\ inv_pc' = "step1"
    /\ UNCHANGED <<discovered_emails, discovered_usernames, confirmed_profiles,
                   people_search_links, username_variations, all_sherlock_found, calls,
                   inv_response, inv_again, inv_other, varsNames, varsMerge, varsRound, varsPool, varsImages>>

\* lines 1530-1546: the request arrives; step 1 is logged
BeginStep1 ==
    /\ inv_pc = "idle"
    /\ \E name \in InvNames, email \in InvEmails, location \in InvLocations :
          inv_request' = InvRequest(name, email, location)
    /\ flow_steps' = <<StepRecord(1, Fmt("Generate people search links", <<>>))>>
    /\ discovered_emails' = <<>>
    /\ discovered_usernames' = <<>>
    /\ confirmed_profiles' = <<>>
    /\ inv_pc' = "step1"
    /\ UNCHANGED <<people_search_links, username_variations, all_sherlock_found, calls,
                   inv_response, inv_again, inv_other, varsNames, varsMerge, varsRound, varsPool, varsImages>>

\* lines 1548-1571
EndStep1 ==
    /\ inv_pc = "step1"
    /\ people_search_links' = PeopleSearchLinks(inv_request)
    /\ flow_steps' = SetLast(flow_steps, "complete",
                             Fmt("Generated {} search links", <<ToString(Len(people_search_links'))>>))
    /\ inv_pc' = IF Truthy(inv_request.email) THEN "begin2" ELSE "begin3"
    /\ UNCHANGED <<inv_request, discovered_emails, discovered_usernames, confirmed_profiles,
                   username_variations, all_sherlock_found, calls, inv_response,
                   inv_again, inv_other, varsNames, varsMerge, varsRound, varsPool, varsImages>>

\* lines 1574-1579
BeginStep2 ==
    /\ inv_pc = "begin2"
    /\ flow_steps' = Append(flow_steps,
                            StepRecord(2, Fmt("Check email registration: {}", <<inv_request.email>>)))
    /\ inv_pc' = "step2"
    /\ UNCHANGED <<inv_request, discovered_emails, discovered_usernames, confirmed_profiles,
                   people_search_links, username_variations, all_sherlock_found, calls,
                   inv_response, inv_again, inv_other, varsNames, varsMerge, varsRound, varsPool, varsImages>>

\* lines 1581-1587: the email is noted and run_holehe handed to the executor
CallHolehe ==
    /\ inv_pc = "step2"
    /\ discovered_emails' = Append(discovered_emails, inv_request.email)
    /\ calls' = Append(calls, CallRecord("holehe", inv_request.email, Pending))
    /\ inv_pc' = "await_holehe"
    /\ UNCHANGED <<inv_request, flow_steps, discovered_usernames, confirmed_profiles,
                   people_search_links, username_variations, all_sherlock_found,
                   inv_response, inv_again, inv_other, varsNames, varsMerge, varsRound, varsPool, varsImages>>

\* lines 1585-1603: the await ends
HoleheReturns ==
    /\ inv_pc = "await_holehe"
    /\ \E e \in InvHoleheRuns :
          LET result == InvCall("holehe", e)
          IN  /\ calls' = [calls EXCEPT ![Len(calls)].result = result]
              /\ IF result = Raised
                 THEN /\ flow_steps' = SetLast(flow_steps, "error", Fmt("{}", <<"RuntimeError">>))
                      /\ UNCHANGED confirmed_profiles
                 ELSE /\ confirmed_profiles' =
                             confirmed_profiles \o HoleheProfiles(result, inv_request.email)
                      /\ flow_steps' = SetLast(flow_steps, "complete",
                             Fmt("Found {} services", <<ToString(Len(result.found))>>))
    /\ inv_pc' = "begin3"
    /\ UNCHANGED <<inv_request, discovered_emails, discovered_usernames, people_search_links,
                   username_variations, all_sherlock_found, inv_response,
                   inv_again, inv_other, varsNames, varsMerge, varsRound, varsPool, varsImages>>

\* lines 1606-1610
BeginStep3 ==
    /\ inv_pc = "begin3"
    /\ flow_steps' = Append(flow_steps,
                            StepRecord(3, Fmt("Search username variations with Sherlock", <<>>)))
    /\ inv_pc' = "step3"
    /\ UNCHANGED <<inv_request, discovered_emails, discovered_usernames, confirmed_profiles,
                   people_search_links, username_variations, all_sherlock_found, calls,
                   inv_response, inv_again, inv_other, varsNames, varsMerge, varsRound, varsPool, varsImages>>

\* lines 1613-1617 with the slice [:3]
VariationsTopThree ==
    /\ inv_pc = "step3"
    /\ username_variations' = Take(generate_username_variations(inv_request.name), 3)
    /\ discovered_usernames' = discovered_usernames \o username_variations'
    /\ all_sherlock_found' = <<>>
    /\ inv_pc' = "loop"
    /\ UNCHANGED <<inv_request, flow_steps, discovered_emails, confirmed_profiles,
                   people_search_links, calls, inv_response, inv_again, inv_other, varsNames, varsMerge, varsRound, varsPool, varsImages>>

\* lines 1613-1617
Variations ==
    /\ inv_pc = "step3"
    /\ username_variations' = Take(generate_username_variations(inv_request.name), TopVariations)
    /\ discovered_usernames' = discovered_usernames \o username_variations'
    /\ all_sherlock_found' = <<>>
    /\ inv_pc' = "loop"
    /\ UNCHANGED <<inv_request, flow_steps, discovered_emails, confirmed_profiles,
                   people_search_links, calls, inv_response, inv_again, inv_other, varsNames, varsMerge, varsRound, varsPool, varsImages>>

\* lines 1619-1623 handing over the next username without awaiting the last
CallSherlockNoAwait ==
    /\ inv_pc \in {"loop", "await_sherlock"}
    /\ Len(SherlockCalls) < Len(username_variations)
    /\ calls' = Append(calls, CallRecord("sherlock",
                                         username_variations[Len(SherlockCalls) + 1], Pending))
    /\ inv_pc' = "await_sherlock"
    /\ UNCHANGED <<inv_request, flow_steps, discovered_emails, discovered_usernames,
                   confirmed_profiles, people_search_links, username_variations,
                   all_sherlock_found, inv_response, inv_again, inv_other, varsNames, varsMerge, varsRound, varsPool, varsImages>>

\* lines 1619-1623: the next username is handed to the executor
CallSherlock ==
    /\ inv_pc = "loop"
    /\ Len(SherlockCalls) < Len(username_variations)
    /\ calls' = Append(calls, CallRecord("sherlock",
                                         username_variations[Len(SherlockCalls) + 1], Pending))
    /\ inv_pc' = "await_sherlock"
    /\ UNCHANGED <<inv_request, flow_steps, discovered_emails, discovered_usernames,
                   confirmed_profiles, people_search_links, username_variations,
                   all_sherlock_found, inv_response, inv_again, inv_other, varsNames, varsMerge, varsRound, varsPool, varsImages>>

\* lines 1621-1637: the await ends
SherlockReturns ==
    /\ inv_pc = "await_sherlock"
    /\ \E e \in InvSherlockRuns :
          LET result == InvCall("sherlock", e)
              after == AfterSearch(result, calls[Len(calls)].arg,
                                   all_sherlock_found, confirmed_profiles)
          IN  /\ calls' = [calls EXCEPT ![Len(calls)].result = result]
              /\ all_sherlock_found' = after.all_found
              /\ confirmed_profiles' = after.confirmed
    /\ inv_pc' = "loop"
    /\ UNCHANGED <<inv_request, flow_steps, discovered_emails, discovered_usernames,
                   people_search_links, username_variations, inv_response,
                   inv_again, inv_other, varsNames, varsMerge, varsRound, varsPool, varsImages>>

\* lines 1639-1640: the loop is over
EndStep3 ==
    /\ inv_pc = "loop"
    /\ Len(SherlockCalls) = Len(username_variations)
    /\ flow_steps' = SetLast(flow_steps, "complete",
                             Fmt("Searched {} usernames, found {} profiles",
                                 <<ToString(Len(username_variations)),
                                   ToString(Len(all_sherlock_found))>>))
    /\ inv_pc' = "summary"
    /\ UNCHANGED <<inv_request, discovered_emails, discovered_usernames, confirmed_profiles,
                   people_search_links, username_variations, all_sherlock_found, calls,
                   inv_response, inv_again, inv_other, varsNames, varsMerge, varsRound, varsPool, varsImages>>

\* lines 1642-1665: the body returned
InvestigationResult ==
    [name |-> inv_request.name,
     flow_steps |-> flow_steps,
     discovered_emails |-> discovered_emails,
     discovered_usernames |-> discovered_usernames,
     confirmed_profiles |-> confirmed_profiles,
     people_search_links |-> people_search_links,
     summary |->
         <<Fmt("Investigated: {}", <<inv_request.name>>)>>
         \o (IF Truthy(inv_request.email)
             THEN <<Fmt("Email checked: {}", <<inv_request.email>>)>> ELSE <<>>)
         \o <<Fmt("Search links: {}", <<ToString(Len(people_search_links))>>),
              Fmt("Usernames tried: {}...", Take(username_variations, 3)),
              Fmt("Confirmed profiles: {}", <<ToString(Len(confirmed_profiles))>>)>>]

Return ==
    /\ inv_pc = "summary"
    /\ inv_response' = InvestigationResult
    /\ inv_pc' = "done"
    /\ UNCHANGED <<inv_request, flow_steps, discovered_emails, discovered_usernames,
                   confirmed_profiles, people_search_links, username_variations,
                   all_sherlock_found, calls, inv_again, inv_other, varsNames, varsMerge, varsRound, varsPool, varsImages>>

InitInvestigate == Idle /\ NoNames /\ NoMerge /\ NoInvestigation /\ NoPool /\ NoImages

NextInvestigate ==
    \/ BeginStep1
    \/ EndStep1
    \/ BeginStep2
    \/ CallHolehe
    \/ HoleheReturns
    \/ BeginStep3
    \/ Variations
    \/ CallSherlock
    \/ SherlockReturns
    \/ EndStep3
    \/ Return

SpecInvestigate == InitInvestigate /\ [][NextInvestigate]_vars

\* the call has returned and the handler is free for the next request; what
\* the variables of the call held is left behind
Again ==
    /\ inv_pc = "done"
    /\ inv_other = NoFrame
    /\ inv_pc' = "idle"
    /\ inv_again' = TRUE
    /\ calls' = <<>>
    /\ inv_response' = None
    /\ UNCHANGED <<inv_request, flow_steps, discovered_emails, discovered_usernames,
                   confirmed_profiles, people_search_links, username_variations,
                   all_sherlock_found, inv_other, varsNames, varsMerge, varsRound, varsPool, varsImages>>

\* the locals of the call of investigate_person the event loop is running
Frame ==
    [inv_pc |-> inv_pc, inv_request |-> inv_request, flow_steps |-> flow_steps,
     discovered_emails |-> discovered_emails, discovered_usernames |-> discovered_usernames,
     confirmed_profiles |-> confirmed_profiles, people_search_links |-> people_search_links,
     username_variations |-> username_variations, all_sherlock_found |-> all_sherlock_found,
     calls |-> calls, inv_response |-> inv_response]

\* the event loop goes on with the suspended call: its locals are as it left them
Restore(g) ==
    /\ inv_pc' = g.inv_pc
    /\ inv_request' = g.inv_request
    /\ flow_steps' = g.flow_steps
    /\ discovered_emails' = g.discovered_emails
    /\ discovered_usernames' = g.discovered_usernames
    /\ confirmed_profiles' = g.confirmed_profiles
    /\ people_search_links' = g.people_search_links
    /\ username_variations' = g.username_variations
    /\ all_sherlock_found' = g.all_sherlock_found
    /\ calls' = g.calls
    /\ inv_response' = g.inv_response

\* the awaits of investigate_person (lines 1585 and 1621): the coroutine is
\* suspended and the event loop runs what else is ready
AtAwait == inv_pc \in {"await_holehe", "await_sherlock"}

\* another request arrives while the call is at an await: the call stays
\* suspended with its locals, and the event loop starts a call of
\* investigate_person for the new request; what the variables held is left behind
Interleave ==
    /\ AtAwait
    /\ ~inv_again
    /\ Len(calls) < MaxInterleavedCalls
    /\ inv_other' = Frame
    /\ inv_pc' = "idle"
    /\ inv_again' = TRUE
    /\ calls' = <<>>
    /\ inv_response' = None
    /\ UNCHANGED <<inv_request, flow_steps, discovered_emails, discovered_usernames,
                   confirmed_profiles, people_search_links, username_variations,
                   all_sherlock_found, varsNames, varsMerge, varsRound, varsPool, varsImages>>

\* the running call is at an await and the event loop goes on with the other
\* call, which was suspended at its await
Switch ==
    /\ AtAwait
    /\ inv_other # NoFrame
    /\ inv_other' = Frame
    /\ Restore(inv_other)
    /\ UNCHANGED <<inv_again, varsNames, varsMerge, varsRound, varsPool, varsImages>>

\* the running call has returned and its locals are gone; the event loop goes
\* on with the other call
Resume ==
    /\ inv_pc = "done"
    /\ inv_other # NoFrame
    /\ inv_other' = NoFrame
    /\ Restore(inv_other)
    /\ UNCHANGED <<inv_again, varsNames, varsMerge, varsRound, varsPool, varsImages>>

\* the adapter calls of the two calls under way are within the bound
InterleavedWithin ==
    inv_other = NoFrame \/ Len(calls) + Len(inv_other.calls) <= MaxInterleavedCalls

\* a step of the running call
InvestigateStep == NextInvestigate /\ InterleavedWithin'

\* investigate_person called again and again, one call after the other or a
\* second one while the first is at an await
NextAgain ==
    \/ InvestigateStep
    \/ Again
    \/ Interleave
    \/ Switch
    \/ Resume

SpecAgain == InitInvestigate /\ [][NextAgain]_vars

(***************************************************************************)
(* Properties of an investigation                                          *)
(***************************************************************************)
\* the calls of a tool that raised
RaisedCalls(tool) == {i \in 1..Len(calls) : calls[i].tool = tool /\ calls[i].result = Raised}

\* the step log has a record of step k that ended in error with a reason
StepEndedInError(k) ==
    \E i \in 1..Len(flow_steps) :
        /\ flow_steps[i].step = k
        /\ flow_steps[i].status = "error"
        /\ flow_steps[i].result # NoKey

\* the URLs of the sherlock findings the calls returned
ReportedUrls ==
    UNION { UrlsOf(calls[i].result.found) :
              i \in {j \in 1..Len(calls) : calls[j].tool = "sherlock" /\ calls[j].result # Raised} }
    \ {EmptyUrl}

\* C14: when the external call of step 2 or of step 3 raises, the record of
\* that step ends with status error and a reason, and the later searches are
\* still made and their findings are in the returned state.
C14_RaisingStepMarkedError ==
    inv_pc = "done" =>
        /\ RaisedCalls("holehe") # {} => StepEndedInError(2)
        /\ RaisedCalls("sherlock") # {} => StepEndedInError(3)
        /\ Len(SherlockCalls) = Len(username_variations)
        /\ \A u \in ReportedUrls : u \in UrlsOf(inv_response.confirmed_profiles)

\* the call has returned, the request had a name and an email, no adapter
\* call raised, each returned one finding, and every username search
\* returned the same finding
C15_Scenario ==
    /\ inv_pc = "done"
    /\ Truthy(inv_request.name)
    /\ Truthy(inv_request.email)
    /\ \A i \in 1..Len(calls) :
          /\ calls[i].result # Raised
          /\ Len(calls[i].result.found) = 1
          /\ calls[i].tool = "sherlock" =>
                calls[i].result.found = SherlockCalls[1].result.found

\* the result of the scenario: 2 confirmed profiles, the request's email the
\* only discovered email, the step records 1, 2, 3, all complete
C15_Outcome ==
    /\ Len(inv_response.confirmed_profiles) = 2
    /\ inv_response.discovered_emails = <<inv_request.email>>
    /\ Len(inv_response.flow_steps) = 3
    /\ \A i \in 1..3 :
          /\ inv_response.flow_steps[i].step = i
          /\ inv_response.flow_steps[i].status = "complete"

\* C15 as the claim words it: with a name and an email, the email check
\* returning one finding and every username search returning the same single
\* finding, the result has 2 confirmed profiles, the request's email as the
\* only discovered email, and the step records 1, 2, 3, all complete.
\* Violated: run_sherlock returns a finding with url '' for a Claimed site
\* without url_user (line 159), line 1627 passes it over, and the result has
\* 1 confirmed profile.
C15_AsStated == C15_Scenario => C15_Outcome

\* C15, amended: with a name and an email, the email check returning one
\* finding and every username search returning the same single finding, whose
\* URL is not empty, the result has 2 confirmed profiles, the request's email
\* as the only discovered email, and the step records 1, 2, 3, all complete.
C15_EndToEndScenario ==
    ( /\ C15_Scenario
      /\ \A i \in 1..Len(calls) :
            calls[i].tool = "sherlock" => calls[i].result.found[1].url # EmptyUrl ) =>
        C15_Outcome

\* name 'B a' and an email: five searches, each reporting GitHub at one URL
C15_Witness ==
    /\ inv_pc = "done"
    /\ inv_request.name = SomeName
    /\ inv_request.email = SomeEmail
    /\ Len(SherlockCalls) = TopVariations
    /\ \A i \in 1..Len(calls) : calls[i].result # Raised /\ Len(calls[i].result.found) = 1
    /\ \A i \in 1..TopVariations : SherlockCalls[i].result.found = <<Finding("GitHub", U1, {})>>
    /\ Len(confirmed_profiles) = 2

\* the state a step works on
Worked ==
    <<discovered_emails, discovered_usernames, confirmed_profiles, people_search_links, calls>>

\* C16: a step appends one record, with status running, before it does any
\* work; only the last record changes afterwards, once, from running to
\* complete or error with a result; the returned log has no running record.
C16_RunningThenClosed ==
    /\ [][ LET n == Len(flow_steps)
               m == Len(flow_steps')
           IN  /\ m \in {n, n + 1}
               /\ \A i \in 1..(n - 1) : flow_steps'[i] = flow_steps[i]
               /\ m = n + 1 =>
                     /\ flow_steps'[m].status = "running"
                     /\ flow_steps'[m].result = NoKey
                     /\ \A i \in 1..n :
                           /\ flow_steps'[i] = flow_steps[i]
                           /\ flow_steps[i].status # "running"
                           /\ flow_steps[i].step < flow_steps'[m].step
                     /\ Worked' = Worked
               /\ (m = n /\ n > 0 /\ flow_steps'[n] # flow_steps[n]) =>
                     /\ flow_steps[n].status = "running"
                     /\ flow_steps'[n].status \in {"complete", "error"}
                     /\ flow_steps'[n].result # NoKey
                     /\ flow_steps'[n].step = flow_steps[n].step
                     /\ flow_steps'[n].action = flow_steps[n].action
               /\ Worked' # Worked => (n > 0 /\ flow_steps[n].status = "running")
         ]_vars
    /\ [](inv_pc = "done" =>
             /\ inv_response.flow_steps = flow_steps
             /\ \A i \in 1..Len(flow_steps) : flow_steps[i].status \in {"complete", "error"})

\* three steps logged, the second of them failed
C16_Witness ==
    /\ inv_pc = "done"
    /\ Len(flow_steps) = 3
    /\ flow_steps[2].status = "error"
    /\ flow_steps[3].status = "complete"
    /\ confirmed_profiles # <<>>

\* xs is kept in ys, entry by entry, at the same places
IsPrefix(xs, ys) == Len(xs) <= Len(ys) /\ \A i \in 1..Len(xs) : ys[i] = xs[i]

\* C17: the discovered emails and usernames, the confirmed profiles and the
\* step log only grow: every step keeps each entry where it is (a step
\* record keeps its step and action), also a step that fails.
C17_StateOnlyGrows ==
    [][ /\ IsPrefix(discovered_emails, discovered_emails')
        /\ IsPrefix(discovered_usernames, discovered_usernames')
        /\ IsPrefix(confirmed_profiles, confirmed_profiles')
        /\ Len(flow_steps) <= Len(flow_steps')
        /\ \A i \in 1..Len(flow_steps) :
              /\ flow_steps'[i].step = flow_steps[i].step
              /\ flow_steps'[i].action = flow_steps[i].action
        /\ inv_pc' = "done" =>
              /\ inv_response'.discovered_emails = discovered_emails
              /\ inv_response'.discovered_usernames = discovered_usernames
              /\ inv_response'.confirmed_profiles = confirmed_profiles
      ]_vars

\* a username search raised after profiles of the email check and of an
\* earlier search were confirmed, and they are all in the result
C17_Witness ==
    /\ inv_pc = "done"
    /\ \E i \in RaisedCalls("sherlock") :
          \E j \in 1..(i - 1) :
              /\ calls[j].tool = "sherlock"
              /\ calls[j].result # Raised
              /\ Len(calls[j].result.found) = 2
    /\ RaisedCalls("holehe") = {}
    /\ Len(inv_response.confirmed_profiles) >= 3
    /\ Len(inv_response.discovered_usernames) = TopVariations

\* the calls not yet returned
PendingCalls == {i \in 1..Len(calls) : calls[i].result = Pending}

\* C24: within one call at most one adapter call is outstanding, the email
\* check has returned before the first username search is made, and while a
\* call is outstanding nothing happens but its return.
C24_OneCallAtATime ==
    /\ [][ PendingCalls # {} =>
               /\ PendingCalls' = {}
               /\ Len(calls') = Len(calls)
               /\ \A i \in 1..Len(calls) \ PendingCalls : calls'[i] = calls[i]
         ]_vars
    /\ []( /\ Cardinality(PendingCalls) <= 1
           /\ PendingCalls \subseteq {Len(calls)}
           /\ (PendingCalls # {}) <=> (inv_pc \in {"await_holehe", "await_sherlock"})
           /\ \A i, j \in 1..Len(calls) :
                 (calls[i].tool = "holehe" /\ calls[j].tool = "sherlock") =>
                     (i < j /\ calls[i].result # Pending) )

\* a username search is outstanding after the email check and an earlier
\* search have returned
C24_Witness ==
    /\ inv_pc = "await_sherlock"
    /\ Len(calls) = 3
    /\ calls[1].tool = "holehe"
    /\ calls[1].result # Pending
    /\ calls[2].result # Pending
    /\ PendingCalls = {3}

\* the entries of a profile list with a source
WithSource(ps, source) == SelectSeq(ps, LAMBDA q : q.source = source)

\* the profile p stems from a finding some adapter call of the call with
\* the locals g returned
OwnProfile(p, g) ==
    \E c \in 1..Len(g.calls) :
        /\ g.calls[c].result # Pending
        /\ g.calls[c].result # Raised
        /\ \E k \in 1..Len(g.calls[c].result.found) :
              IF p.source = "sherlock"
              THEN /\ g.calls[c].tool = "sherlock"
                   /\ p = SherlockProfile(g.calls[c].result.found[k], g.calls[c].arg)
              ELSE /\ g.calls[c].tool = "holehe"
                   /\ p = HoleheProfile(g.calls[c].result.found[k], g.inv_request.email)

\* what the call with the locals g holds comes from its own request and from
\* what its own adapter calls returned
OwnState(g) ==
    g.inv_pc \notin {"none", "idle"} =>
    /\ Len(g.discovered_emails) <= 1
    /\ \A i \in 1..Len(g.discovered_emails) : g.discovered_emails[i] = g.inv_request.email
    /\ IsPrefix(g.discovered_usernames, generate_username_variations(g.inv_request.name))
    /\ \A i \in 1..Len(g.confirmed_profiles) : OwnProfile(g.confirmed_profiles[i], g)
    /\ Len(g.flow_steps) <= 3
    /\ \A i, j \in 1..Len(g.flow_steps) :
          i < j => g.flow_steps[i].step < g.flow_steps[j].step
    /\ g.inv_pc = "done" =>
          /\ g.inv_response.name = g.inv_request.name
          /\ g.inv_response.flow_steps = g.flow_steps
          /\ g.inv_response.discovered_emails = g.discovered_emails
          /\ g.inv_response.discovered_usernames = g.discovered_usernames
          /\ g.inv_response.confirmed_profiles = g.confirmed_profiles
          /\ g.inv_response.people_search_links = PeopleSearchLinks(g.inv_request)
          /\ Len(WithSource(g.confirmed_profiles, "holehe (email)")) =
                 (IF g.calls[1].tool = "holehe" /\ g.calls[1].result # Raised
                  THEN Len(g.calls[1].result.found) ELSE 0)

\* C25: calls of investigate_person, made one after the other or the second
\* while the first is suspended at an await, hold nothing of each other: the
\* emails, usernames, profiles and step log of the running call and of the
\* suspended call come each from its own request and from what its own
\* adapter calls returned, and so does the body each returns.
C25_CallsDoNotInfluenceEachOther == OwnState(Frame) /\ OwnState(inv_other)

\* two calls under way: the first, with an email, is suspended at the await
\* of its username search and holds the email and the profile of its email
\* check; the second, without an email, was started meanwhile and has
\* returned two profiles of its own and no email
C25_Witness ==
    /\ inv_pc = "done"
    /\ inv_other # NoFrame
    /\ inv_other.inv_pc = "await_sherlock"
    /\ inv_other.discovered_emails = <<SomeEmail>>
    /\ Len(inv_other.confirmed_profiles) = 1
    /\ ~Truthy(inv_request.email)
    /\ inv_response.discovered_emails = <<>>
    /\ Len(inv_response.confirmed_profiles) = 2
    /\ Len(inv_response.flow_steps) = 2

\* the email checks made so far
HoleheCalls == SelectSeq(calls, LAMBDA c : c.tool = "holehe")

\* C27: the email adapter is called once if the request has a non-empty
\* email and never otherwise; each service a returned check found is one
\* confirmed profile with source 'holehe (email)' and the request's email;
\* the email is a discovered email also when the check raised.
C27_EmailCheckOnceIffEmail ==
    /\ Len(HoleheCalls) <= 1
    /\ ~Truthy(inv_request.email) => (HoleheCalls = <<>> /\ discovered_emails = <<>>)
    /\ inv_pc = "done" =>
          LET tagged == WithSource(inv_response.confirmed_profiles, "holehe (email)")
          IN  /\ Truthy(inv_request.email) =>
                    /\ Len(HoleheCalls) = 1
                    /\ HoleheCalls[1].arg = inv_request.email
                    /\ inv_response.discovered_emails = <<inv_request.email>>
              /\ (HoleheCalls # <<>> /\ HoleheCalls[1].result # Raised) =>
                    LET found == HoleheCalls[1].result.found
                    IN  /\ Len(tagged) = Len(found)
                        /\ \A k \in 1..Len(found) :
                              /\ tagged[k].platform = found[k].service
                              /\ tagged[k].email = inv_request.email
              /\ (HoleheCalls = <<>> \/ HoleheCalls[1].result = Raised) => tagged = <<>>

\* the check found two services; both are confirmed profiles
C27_Witness ==
    /\ inv_pc = "done"
    /\ inv_request.email = SomeEmail
    /\ Len(HoleheCalls) = 1
    /\ HoleheCalls[1].result # Raised
    /\ Len(HoleheCalls[1].result.found) = 2
    /\ Len(WithSource(inv_response.confirmed_profiles, "holehe (email)")) = 2
    /\ inv_response.discovered_emails = <<SomeEmail>>

\* C28: step 3 calls the username adapter once for each of the first
\* min(5, n) of the n generated variations, in their order, and
\* discovered_usernames is that prefix, whichever of the searches fail.
C28_TopVariationsSearchedInOrder ==
    inv_pc = "done" =>
        LET all == generate_username_variations(inv_request.name)
            n == IF Len(all) < 5 THEN Len(all) ELSE 5
        IN  /\ Len(SherlockCalls) = n
            /\ \A i \in 1..n : SherlockCalls[i].arg = all[i]
            /\ inv_response.discovered_usernames = SubSeq(all, 1, n)

\* more than five variations; the second search raised, the third timed out
C28_Witness ==
    /\ inv_pc = "done"
    /\ Len(generate_username_variations(inv_request.name)) > 5
    /\ Len(SherlockCalls) = 5
    /\ SherlockCalls[2].result = Raised
    /\ SherlockCalls[3].result # Raised
    /\ SherlockCalls[3].result.errors = <<ErrTimedOut>>
    /\ Len(inv_response.discovered_usernames) = 5

\* the username searches that returned a finding with the URL u
Reporting(u) ==
    {c \in 1..Len(SherlockCalls) :
        SherlockCalls[c].result # Raised /\ u \in UrlsOf(SherlockCalls[c].result.found)}

\* C29: after step 3 the confirmed profiles with source 'sherlock' have
\* pairwise different URLs, none of them empty, each carries the first
\* username searched that reported its URL, and the count in the result of
\* step 3 is the number of these profiles.
C29_SherlockEntriesUniqueByUrl ==
    inv_pc = "done" =>
        LET es == WithSource(inv_response.confirmed_profiles, "sherlock")
            last == inv_response.flow_steps[Len(inv_response.flow_steps)]
        IN  /\ \A i, j \in 1..Len(es) : es[i].url = es[j].url => i = j
            /\ \A i \in 1..Len(es) :
                  /\ es[i].url # EmptyUrl
                  /\ Reporting(es[i].url) # {}
                  /\ \E c \in Reporting(es[i].url) :
                        /\ \A d \in Reporting(es[i].url) : c <= d
                        /\ es[i].username = SherlockCalls[c].arg
            /\ \A u \in ReportedUrls : \E i \in 1..Len(es) : es[i].url = u
            /\ last.step = 3
            /\ last.result = Fmt("Searched {} usernames, found {} profiles",
                                  <<ToString(Len(SherlockCalls)), ToString(Len(es))>>)

\* the first search found a site without a URL, the second and the fourth
\* the same URL, the fifth two URLs
C29_Witness ==
    /\ inv_pc = "done"
    /\ Len(SherlockCalls) = 5
    /\ SherlockCalls[1].result # Raised
    /\ EmptyUrl \in UrlsOf(SherlockCalls[1].result.found)
    /\ Reporting(U1) = {2, 4, 5}
    /\ Reporting(U2) = {5}
    /\ Len(WithSource(inv_response.confirmed_profiles, "sherlock")) = 2

(***************************************************************************)
(* The executor of main.py (line 47) and the tools started without it.     *)
(* run_in_executor puts a work item into the executor's queue; one of at   *)
(* most max_workers threads takes it and calls the adapter, which runs the *)
(* tool and waits for it.  run_socialscan starts its process itself.       *)
(***************************************************************************)
\* the worker threads running an adapter
Busy ==
    threads["sherlock"] + threads["maigret"] + threads["holehe"]
    + threads["phoneinfoga"] + threads["h8mail"] + threads["theharvester"]
    + threads["social_analyzer"]

\* the work items of adapter t, queued or running
ItemsOf(t) == Cardinality({i \in 1..Len(work_queue) : work_queue[i] = t}) + threads[t]

\* the tool processes health_check has running: subprocess.run runs one at a time
HealthProcesses == IF loop.handler = "health_check" THEN 1 ELSE 0

\* loop.run_in_executor(executor, fn, ...): executor.submit puts one work item
\* on the queue
Submit(fn) ==
    /\ Len(work_queue) < MaxQueued
    /\ ItemsOf(fn) < MaxPerTool
    /\ work_queue' = Append(work_queue, fn)

\* a coroutine hands one adapter to the executor and waits for it:
\*   run_sherlock         sherlock_search (208), multi_username_search (1374),
\*                        search_username of full_osint_sweep (1433),
\*                        investigate_person (1621)
\*   run_maigret          maigret_search (290)
\*   run_holehe           holehe_search (373), search_email of full_osint_sweep
\*                        (1442), investigate_person (1585)
\*   run_phoneinfoga      phoneinfoga_search (686)
\*   run_h8mail           h8mail_search (797)
\*   run_theharvester     harvester_search (928)
\*   run_social_analyzer  social_analyzer_search (1045)
RunInExecutor(t) ==
    /\ loop = LoopIdle
    /\ Submit(t)
    /\ UNCHANGED <<threads, subprocesses, spawned, awaited, loop, varsNames, varsMerge, varsRound, varsInvestigate, varsImages>>

\* full_username_search, lines 460-462: run_sherlock is put on the queue; the
\* handler goes on to line 463 without giving the loop back, the worker
\* threads run meanwhile
PoolPutsSherlock ==
    /\ loop = LoopIdle
    /\ Len(work_queue) + 1 < MaxQueued
    /\ ItemsOf("maigret") < MaxPerTool
    /\ Submit("sherlock")
    /\ loop' = LoopAt("full_username_search", 0)
    /\ UNCHANGED <<threads, subprocesses, spawned, awaited, varsNames, varsMerge, varsRound, varsInvestigate, varsImages>>

\* full_username_search, lines 463-465: run_maigret is put on the queue; the
\* handler then waits in gather
PoolPutsMaigret ==
    /\ loop.handler = "full_username_search"
    /\ Submit("maigret")
    /\ loop' = LoopIdle
    /\ UNCHANGED <<threads, subprocesses, spawned, awaited, varsNames, varsMerge, varsRound, varsInvestigate, varsImages>>

\* full_username_search, lines 460-465: its two calls of run_in_executor
PoolFullUsernameSearch == PoolPutsSherlock \/ PoolPutsMaigret

\* a thread of the executor takes the oldest work item
WorkerTakes ==
    /\ work_queue # <<>>
    /\ Busy < MaxWorkers
    /\ threads' = [threads EXCEPT ![Head(work_queue)] = @ + 1]
    /\ work_queue' = Tail(work_queue)
    /\ UNCHANGED <<subprocesses, spawned, awaited, loop, varsNames, varsMerge, varsRound, varsInvestigate, varsImages>>

\* the adapter a thread runs returns
WorkerDone(t) ==
    /\ threads[t] > 0
    /\ threads' = [threads EXCEPT ![t] = @ - 1]
    /\ UNCHANGED <<work_queue, subprocesses, spawned, awaited, loop, varsNames, varsMerge, varsRound, varsInvestigate, varsImages>>

\* the socialscan processes running on after the wait for them was given up
Abandoned == subprocesses - spawned - awaited

\* socialscan_check: run_socialscan, lines 393-399: create_subprocess_exec
\* starts the process; the coroutine gives the loop back before it goes on
SocialscanStarts ==
    /\ loop = LoopIdle
    /\ subprocesses < MaxDirect
    /\ subprocesses' = subprocesses + 1
    /\ spawned' = spawned + 1
    /\ UNCHANGED <<work_queue, threads, awaited, loop, varsNames, varsMerge, varsRound, varsInvestigate, varsImages>>

\* run_socialscan, lines 401-404: the coroutine goes on and waits for its
\* process in wait_for(process.communicate(), timeout=30)
SocialscanWaits ==
    /\ loop = LoopIdle
    /\ spawned > 0
    /\ spawned' = spawned - 1
    /\ awaited' = awaited + 1
    /\ UNCHANGED <<work_queue, threads, subprocesses, loop, varsNames, varsMerge, varsRound, varsInvestigate, varsImages>>

\* a process whose coroutine has not reached its wait ends: communicate()
\* of line 402 will return at once
SpawnedEnds ==
    /\ spawned > 0
    /\ subprocesses' = subprocesses - 1
    /\ spawned' = spawned - 1
    /\ UNCHANGED <<work_queue, threads, awaited, loop, varsNames, varsMerge, varsRound, varsInvestigate, varsImages>>

\* run_socialscan, lines 401-404: a process that is waited for ends
SocialscanEnds ==
    /\ awaited > 0
    /\ subprocesses' = subprocesses - 1
    /\ awaited' = awaited - 1
    /\ UNCHANGED <<work_queue, threads, spawned, loop, varsNames, varsMerge, varsRound, varsInvestigate, varsImages>>

\* run_socialscan, lines 401-404 and 421-422: wait_for gives the wait up
\* after 30 seconds; nothing ends the process, which runs on
SocialscanWaitGivenUp ==
    /\ loop = LoopIdle
    /\ awaited > 0
    /\ awaited' = awaited - 1
    /\ UNCHANGED <<work_queue, threads, subprocesses, spawned, loop, varsNames, varsMerge, varsRound, varsInvestigate, varsImages>>

\* a socialscan process no coroutine waits for any more ends
AbandonedEnds ==
    /\ Abandoned > 0
    /\ subprocesses' = subprocesses - 1
    /\ UNCHANGED <<work_queue, threads, spawned, awaited, loop, varsNames, varsMerge, varsRound, varsInvestigate, varsImages>>

\* health_check after its tool-th tool (lines 1680-1704): a tool that is not
\* installed raises FileNotFoundError at once and is passed over; subprocess.run
\* of the next installed one starts its process and holds the event-loop
\* thread; after the last tool the handler returns
HealthGoesOn(tool) ==
    \E next \in (tool + 1)..(Len(HealthTools) + 1) :
        loop' = IF next > Len(HealthTools) THEN LoopIdle
                ELSE LoopAt("health_check", next)

\* health_check, lines 1672-1704, up to its first subprocess.run
health_check ==
    /\ loop = LoopIdle
    /\ HealthGoesOn(0)
    /\ UNCHANGED <<work_queue, threads, subprocesses, spawned, awaited, varsNames, varsMerge, varsRound, varsInvestigate, varsImages>>

\* subprocess.run of health_check returns: the process has ended or was
\* killed after 5 seconds (line 1685, 1698)
HealthToolReturns ==
    /\ loop.handler = "health_check"
    /\ HealthGoesOn(loop.tool)
    /\ UNCHANGED <<work_queue, threads, subprocesses, spawned, awaited, varsNames, varsMerge, varsRound, varsInvestigate, varsImages>>

NextPool ==
    \/ \E t \in PoolTools : RunInExecutor(t)
    \/ PoolPutsSherlock
    \/ PoolPutsMaigret
    \/ WorkerTakes
    \/ \E t \in PoolTools : WorkerDone(t)
    \/ SocialscanStarts
    \/ SocialscanWaits
    \/ SpawnedEnds
    \/ SocialscanEnds
    \/ SocialscanWaitGivenUp
    \/ AbandonedEnds
    \/ health_check
    \/ HealthToolReturns

SpecPool == Init /\ [][NextPool]_vars

\* C22: at every instant at most 10 external tools run, the ones started
\* without the executor included.
C22_InvocationsWithinLimit == Busy + subprocesses + HealthProcesses <= MaxWorkers

(***************************************************************************)
(* The temporary image hosting of main.py (1928-2001)                      *)
(***************************************************************************)
\* str(uuid.uuid4())[:8]
ImageIds == {"1a", "2b"}

\* an image_base64: has it the prefix of a data URL, and what it decodes to
Image(data_url, bytes) == [data_url |-> data_url, bytes |-> bytes]

\* what the base64 text decodes to: bytes beginning as a PNG, a GIF or a
\* RIFF/WEBP file do, RIFF bytes of another kind ("riff"), other bytes
\* ("jpeg"), or nothing, the text being no base64 ("invalid")
Images == {Image(FALSE, "jpeg"), Image(TRUE, "png"), Image(FALSE, "gif"),
           Image(TRUE, "gif"), Image(FALSE, "webp"), Image(FALSE, "riff"),
           Image(FALSE, "invalid")}

\* lines 1992-1999: the content type by the first bytes
ContentType(bytes) ==
    CASE bytes = "png" -> "image/png"
      [] bytes = "gif" -> "image/gif"
      [] bytes = "webp" -> "image/webp"
      [] OTHER -> "image/jpeg"

\* timedelta.seconds: the seconds of a time difference without its days
TimedeltaSeconds(d) == d % 86400

\* lines 1943-1944: the keys of the expired images
Expired(images, current_time) ==
    {images[i].key : i \in {j \in 1..Len(images) :
        TimedeltaSeconds(current_time - images[j].value.uploaded_at) > ExpirySeconds}}

\* del d[k] for each k of ks
DictDel(d, ks) == SelectSeq(d, LAMBDA kv : kv.key \notin ks)

\* d[k]
DictGet(d, k) == d[CHOOSE i \in 1..Len(d) : d[i].key = k].value

\* time passes: five minutes, a second more, a day
Tick ==
    /\ clock < MaxClock
    /\ \E d \in {300, 301, 86400} : clock' = clock + d
    /\ UNCHANGED <<temp_images, image_reply, varsNames, varsMerge, varsRound, varsInvestigate, varsPool>>

\* lines 1936-1971
upload_temp_image ==
    \E image_id \in ImageIds, image \in Images :
        /\ temp_images' = DictSet(DictDel(temp_images, Expired(temp_images, clock)),
                                  image_id, [data |-> image, uploaded_at |-> clock])
        /\ image_reply' = [handler |-> "upload", image_id |-> image_id,
                           expires_in |-> ExpirySeconds]
        /\ UNCHANGED <<clock, varsNames, varsMerge, varsRound, varsInvestigate, varsPool>>

\* lines 1975-2001
get_temp_image ==
    \E image_id \in ImageIds :
        /\ image_reply' =
              IF image_id \notin Keys(temp_images)
              THEN [handler |-> "get", image_id |-> image_id, status |-> 404]
              ELSE LET image == DictGet(temp_images, image_id).data
                   IN  IF image.bytes = "invalid"
                       THEN [handler |-> "get", image_id |-> image_id, status |-> 400]
                       ELSE [handler |-> "get", image_id |-> image_id, status |-> 200,
                             media_type |-> ContentType(image.bytes)]
        /\ UNCHANGED <<temp_images, clock, varsNames, varsMerge, varsRound, varsInvestigate, varsPool>>

NextImages == Tick \/ upload_temp_image \/ get_temp_image

SpecImages == Init /\ [][NextImages]_vars

\* C26: get_temp_image serves no image uploaded more than 600 seconds ago.
C26_NotServedAfterTenMinutes ==
    [][ ( /\ clock' = clock
          /\ temp_images' = temp_images
          /\ image_reply'.handler = "get"
          /\ image_reply'.status = 200 ) =>
            clock - DictGet(temp_images, image_reply'.image_id).uploaded_at <= ExpirySeconds
      ]_vars

====
